---------------------------- MODULE Spec2Model ----------------------------
(***************************************************************************)
(* error-toon (src/src/main.rs): classification of pasted browser/runtime  *)
(* error text by an ordered list of regular expressions, extraction of a   *)
(* file location, an issue line and up to three user stack frames, and the *)
(* Plain / TOON renderings of the resulting record.                        *)
(*                                                                         *)
(* Text is modelled by TLA+ strings; len gives the length in bytes of the   *)
(* Rust &str (one byte per ASCII character, three for the arrow, four for  *)
(* the square that stands for an emoji).  A regular                        *)
(* expression is a value built with the constructors below and interpreted *)
(* by Run, a backtracking matcher that returns the match the regex crate   *)
(* reports (leftmost-first, greedy repetition) with its capture groups.    *)
(***************************************************************************)
EXTENDS Integers, Sequences, FiniteSets, TLC

VARIABLES
    pc,               \* where main is: "start", "read", "detect", "build", "display",
                      \* "copy", "done" (returned), "exited" (exit_with_error) or
                      \* "panicked"; "test" and "tested" in the unit tests
    args,             \* struct Args: [no_copy, plain, toon]
    tty,              \* io::stdout().is_terminal()
    color_override,   \* Some(FALSE) once colored::control::set_override(false) ran
    input,            \* the text read_input returned
    error_type,       \* what detect_error_type returned: None or Some(type)
    result,           \* the ToonifiedError built from input: None or Some(record)
    copyable_output,  \* the Plain or TOON rendering of result
    stdout,           \* what was printed on standard output
    stderr,           \* the messages printed on standard error, in order
    exit_code,        \* None while the process runs, then Some(code)
    clipboard,        \* the clipboard writes attempted: [text, ok]
    calls,            \* the functions of the core main has called, in order
    unit,             \* the call of the unit tests: [fn, arg, ret]
    patterns_ok,      \* whether every Regex::new of Patterns::compile returns Ok
    PATTERNS,         \* the Lazy<Patterns>: [state, value, compiled]
    threads           \* the threads that use PATTERNS at once: [pc, seen, left]

vars == <<pc, args, tty, color_override, input, error_type, result, copyable_output,
          stdout, stderr, exit_code, clipboard, calls, unit, patterns_ok, PATTERNS,
          threads>>

\* the registry of the patterns, and who shares it
lazy_vars == <<patterns_ok, PATTERNS, threads>>

\* Option<T>: None, or Some(x)
None == <<>>
Some(x) == <<x>>
IsSome(o) == o # None
Unwrap(o) == o[1]

\* Option::map and Option::or (b is evaluated only if a is None)
OptionMap(o, F(_)) == IF o = None THEN None ELSE Some(F(Unwrap(o)))
OrElse(a, b) == IF a # None THEN a ELSE b

-----------------------------------------------------------------------------
(* Characters *)

Digit == {"0", "1", "2", "3", "4", "5", "6", "7", "8", "9"}

LowerAlpha == {"a", "b", "c", "d", "e", "f", "g", "h", "i", "j", "k", "l", "m",
               "n", "o", "p", "q", "r", "s", "t", "u", "v", "w", "x", "y", "z"}

UpperAlpha == {"A", "B", "C", "D", "E", "F", "G", "H", "I", "J", "K", "L", "M",
               "N", "O", "P", "Q", "R", "S", "T", "U", "V", "W", "X", "Y", "Z"}

\* \w of the regex crate, restricted to ASCII
WordChar == LowerAlpha \cup UpperAlpha \cup Digit \cup {"_"}

\* \s of the regex crate and char::is_whitespace, restricted to ASCII
WhiteSpace == {" ", "\t", "\n", "\r", "\f"}

LowerOf == [A |-> "a", B |-> "b", C |-> "c", D |-> "d", E |-> "e", F |-> "f",
            G |-> "g", H |-> "h", I |-> "i", J |-> "j", K |-> "k", L |-> "l",
            M |-> "m", N |-> "n", O |-> "o", P |-> "p", Q |-> "q", R |-> "r",
            S |-> "s", T |-> "t", U |-> "u", V |-> "v", W |-> "w", X |-> "x",
            Y |-> "y", Z |-> "z"]

CharAt(s, i) == SubSeq(s, i, i)

\* the least and the greatest member of a non-empty set of integers
MinOf(S) == CHOOSE x \in S : \A y \in S : x <= y
MaxOf(S) == CHOOSE x \in S : \A y \in S : y <= x

\* the least member of a set of integers, or None
FirstOf(S) == IF S = {} THEN None ELSE Some(MinOf(S))

\* str::to_lowercase on ASCII text (character by character; the recursion is by
\* halves to keep the evaluation shallow)
RECURSIVE to_lowercase(_)
to_lowercase(s) ==
    IF s = "" THEN ""
    ELSE IF Len(s) = 1 THEN (IF s \in UpperAlpha THEN LowerOf[s] ELSE s)
    ELSE LET h == Len(s) \div 2
         IN  to_lowercase(SubSeq(s, 1, h)) \o to_lowercase(SubSeq(s, h + 1, Len(s)))

-----------------------------------------------------------------------------
(* Regular expressions: syntax *)

Lit(s)   == [k |-> "lit", s |-> s]                 \* a literal string
LitI(s)  == [k |-> "lit", s |-> to_lowercase(s)]   \* a literal under (?i)
Cls(S)   == [k |-> "cls", S |-> S]                 \* [...]
NCls(S)  == [k |-> "ncls", S |-> S]                \* [^...]
Cat(rs)  == [k |-> "cat", rs |-> rs]               \* r1 r2 ...
Grp(n, r) == [k |-> "grp", n |-> n, r |-> r]       \* capture group n: (r)
Alt(rs)  == [k |-> "alt", rs |-> rs]               \* r1|r2|...
Star(r)  == [k |-> "star", r |-> r]                \* r*  (greedy)
Eps      == [k |-> "eps"]                          \* the empty regex
Bol      == [k |-> "bol"]                          \* ^ under (?m)
Eot      == [k |-> "eot"]                          \* $ without (?m)
Wb       == [k |-> "wb"]                           \* \b
Plus(r)  == Cat(<<r, Star(r)>>)                    \* r+  (greedy)
Opt(r)   == Alt(<<r, Eps>>)                        \* r?  (greedy)
Dot      == NCls({"\n"})                           \* .
AnyStar  == Star(Dot)                              \* .*
D        == Cls(Digit)                             \* \d
W        == Cls(WordChar)                          \* \w
Sp       == Cls(WhiteSpace)                        \* \s
NSp      == NCls(WhiteSpace)                       \* \S

-----------------------------------------------------------------------------
(* Regular expressions: matching *)

IsWordAt(s, i) == i >= 1 /\ i <= Len(s) /\ CharAt(s, i) \in WordChar

\* the number of characters from position i on that are in (inside = TRUE) or
\* not in (inside = FALSE) the class S
RunLen(S, inside, s, i) ==
    LET stops == {j \in i..Len(s) : (CharAt(s, j) \in S) # inside}
    IN  (IF stops = {} THEN Len(s) + 1 ELSE MinOf(stops)) - i

\* the capture groups of a match that has not closed any group
NoCaps == <<None, None>>

\* Run(rs, s, i, caps): the first way, in the order a backtracking matcher tries
\* them, to match the regexes of the sequence rs one after the other from
\* position i of s: Some([end |-> the position after the match, caps |-> its
\* groups]), or None.  Positions are 1-based; a match [start, end) excludes end.
RECURSIVE Run(_, _, _, _), TryAlt(_, _, _, _, _, _), Back(_, _, _, _, _)
Run(rs, s, i, caps) ==
    IF rs = <<>> THEN Some([end |-> i, caps |-> caps])
    ELSE
    LET r    == Head(rs)
        rest == Tail(rs)
    IN  CASE r.k = "lit" ->
               IF i + Len(r.s) - 1 <= Len(s) /\ SubSeq(s, i, i + Len(r.s) - 1) = r.s
               THEN Run(rest, s, i + Len(r.s), caps) ELSE None
          [] r.k = "cls" ->
               IF i <= Len(s) /\ CharAt(s, i) \in r.S
               THEN Run(rest, s, i + 1, caps) ELSE None
          [] r.k = "ncls" ->
               IF i <= Len(s) /\ CharAt(s, i) \notin r.S
               THEN Run(rest, s, i + 1, caps) ELSE None
          [] r.k = "eps" -> Run(rest, s, i, caps)
          [] r.k = "bol" ->
               IF i = 1 \/ CharAt(s, i - 1) = "\n" THEN Run(rest, s, i, caps) ELSE None
          [] r.k = "eot" ->
               IF i = Len(s) + 1 THEN Run(rest, s, i, caps) ELSE None
          [] r.k = "wb" ->
               IF IsWordAt(s, i - 1) # IsWordAt(s, i) THEN Run(rest, s, i, caps) ELSE None
          [] r.k = "cat" -> Run(r.rs \o rest, s, i, caps)
          [] r.k = "alt" -> TryAlt(r.rs, 1, rest, s, i, caps)
          [] r.k = "grp" ->
               Run(<<r.r, [k |-> "close", n |-> r.n, from |-> i]>> \o rest, s, i, caps)
          [] r.k = "close" ->
               Run(rest, s, i, [caps EXCEPT ![r.n] = Some([start |-> r.from, end |-> i])])
          [] r.k = "moved" ->
               IF i > r.from THEN Run(rest, s, i, caps) ELSE None
          [] r.k = "star" ->
               \* greedy: one more iteration is preferred to stopping
               IF r.r.k = "cls" THEN Back(rest, s, i + RunLen(r.r.S, TRUE, s, i), i, caps)
               ELSE IF r.r.k = "ncls"
                    THEN Back(rest, s, i + RunLen(r.r.S, FALSE, s, i), i, caps)
               ELSE OrElse(Run(<<r.r, [k |-> "moved", from |-> i], r>> \o rest,
                               s, i, caps),
                           Run(rest, s, i, caps))

\* the alternatives rs[j..] in order, each followed by rest
TryAlt(rs, j, rest, s, i, caps) ==
    IF j > Len(rs) THEN None
    ELSE OrElse(Run(<<rs[j]>> \o rest, s, i, caps),
                TryAlt(rs, j + 1, rest, s, i, caps))

\* rest from the positions hi, hi - 1, ..., lo in that order (a repetition of a
\* character class giving back one character at a time)
Back(rest, s, hi, lo, caps) ==
    LET ok == {k \in lo..hi : Run(rest, s, k, caps) # None}
    IN  IF ok = {} THEN None ELSE Run(rest, s, MaxOf(ok), caps)

\* Regex::find_at / Regex::captures_at: the leftmost match at or after position
\* i, Some([start, end, caps]), or None
Match(j, m) == [start |-> j, end |-> m.end, caps |-> m.caps]

find_at(re, s, i) ==
    OptionMap(FirstOf({j \in i..(Len(s) + 1) : Run(<<re>>, s, j, NoCaps) # None}),
              LAMBDA j : Match(j, Unwrap(Run(<<re>>, s, j, NoCaps))))

\* Match::as_str
as_str(s, m) == SubSeq(s, m.start, m.end - 1)

\* Regex::find_iter: the successive non-overlapping matches
\* where the search goes on after the match m: after an empty match, one
\* character further
next_start(m) == IF m.end > m.start THEN m.end ELSE m.end + 1

RECURSIVE find_iter_from(_, _, _), matches_after(_, _, _)
find_iter_from(re, s, i) == matches_after(re, s, find_at(re, s, i))
matches_after(re, s, m) ==
    IF m = None THEN <<>> ELSE m \o find_iter_from(re, s, next_start(Unwrap(m)))

\* a compiled pattern: the regex and its (?i) flag.  Under (?i) the literals of
\* the regex are lower case (LitI) and it is run on the lower-cased text, whose
\* positions are those of the text.
Regex(ci, r) == [ci |-> ci, re |-> r]
Subject(p, s) == IF p.ci THEN to_lowercase(s) ELSE s

\* Regex::find and Regex::captures
find(p, s) == find_at(p.re, Subject(p, s), 1)

\* Regex::is_match
matches_from(re, s) == \E j \in 1..(Len(s) + 1) : Run(<<re>>, s, j, NoCaps) # None

is_match(p, s) == matches_from(p.re, Subject(p, s))

\* Regex::find_iter
find_iter(p, s) == find_iter_from(p.re, Subject(p, s), 1)

-----------------------------------------------------------------------------
(* Constants *)

BOX_WIDTH == 43
CONTENT_WIDTH == BOX_WIDTH - 4
TRUNCATE_WIDTH == CONTENT_WIDTH - 3

\* SOURCE_EXTENSIONS = "mdx|tsx|jsx|ts|js|vue|svelte"
SOURCE_EXTENSIONS ==
    Alt(<<Lit("mdx"), Lit("tsx"), Lit("jsx"), Lit("ts"), Lit("js"), Lit("vue"),
          Lit("svelte")>>)

-----------------------------------------------------------------------------
(* Patterns *)

\* [45]\d{2}
StatusDigits == Cat(<<Cls({"4", "5"}), D, D>>)

\* (?m)^(?:\S+:\d+\s+)?<name>:|Uncaught <name>
JsErrorPattern(name) ==
    Regex(FALSE,
          Alt(<<Cat(<<Bol, Opt(Cat(<<Plus(NSp), Lit(":"), Plus(D), Plus(Sp)>>)),
                      Lit(name \o ":")>>),
                Lit("Uncaught " \o name)>>))

\* (?i)validateDOMNesting
dom_nesting == Regex(TRUE, LitI("validateDOMNesting"))

\* (?i)hydrat(ion|e|ing).*(?:failed|mismatch|error)
hydration ==
    Regex(TRUE,
          Cat(<<LitI("hydrat"), Alt(<<LitI("ion"), LitI("e"), LitI("ing")>>), AnyStar,
                Alt(<<LitI("failed"), LitI("mismatch"), LitI("error")>>)>>))

\* Minified React error #\d+|react\.production\.min\.js
react_minified ==
    Regex(FALSE,
          Alt(<<Cat(<<Lit("Minified React error #"), Plus(D)>>),
                Lit("react.production.min.js")>>))

\* (?i)Invalid hook call|Rules of Hooks|rendered more hooks
invalid_hook ==
    Regex(TRUE,
          Alt(<<LitI("Invalid hook call"), LitI("Rules of Hooks"),
                LitI("rendered more hooks")>>))

\* (?i)Encountered two children with the same key|Keys should be unique|Non-unique keys may cause
react_key ==
    Regex(TRUE,
          Alt(<<LitI("Encountered two children with the same key"),
                LitI("Keys should be unique"), LitI("Non-unique keys may cause")>>))

type_error   == JsErrorPattern("TypeError")
ref_error    == JsErrorPattern("ReferenceError")
syntax_error == JsErrorPattern("SyntaxError")
range_error  == JsErrorPattern("RangeError")
uri_error    == JsErrorPattern("URIError")
eval_error   == JsErrorPattern("EvalError")

\* (?i)CORS|Access-Control-Allow-Origin|blocked by CORS|cross-origin
cors_error ==
    Regex(TRUE,
          Alt(<<LitI("CORS"), LitI("Access-Control-Allow-Origin"),
                LitI("blocked by CORS"), LitI("cross-origin")>>))

\* (?i)Failed to fetch|NetworkError|net::ERR_|NS_ERROR_|fetch.*failed
network_error ==
    Regex(TRUE,
          Alt(<<LitI("Failed to fetch"), LitI("NetworkError"), LitI("net::ERR_"),
                LitI("NS_ERROR_"), Cat(<<LitI("fetch"), AnyStar, LitI("failed")>>)>>))

\* (?i)\b(GET|POST|PUT|DELETE|PATCH)\s+\S+\s+[45]\d{2}\b|status[:\s]+[45]\d{2}\b
\*     |\b[45]\d{2}\s+(Not Found|Internal Server|Bad Request|Unauthorized|Forbidden)
http_error ==
    Regex(TRUE,
          Alt(<<Cat(<<Wb,
                      Alt(<<LitI("GET"), LitI("POST"), LitI("PUT"), LitI("DELETE"),
                            LitI("PATCH")>>),
                      Plus(Sp), Plus(NSp), Plus(Sp), StatusDigits, Wb>>),
                Cat(<<LitI("status"), Plus(Cls({":"} \cup WhiteSpace)), StatusDigits,
                      Wb>>),
                Cat(<<Wb, StatusDigits, Plus(Sp),
                      Alt(<<LitI("Not Found"), LitI("Internal Server"),
                            LitI("Bad Request"), LitI("Unauthorized"),
                            LitI("Forbidden")>>)>>)>>))

\* (?i)WebSocket.*(?:error|failed|closed)|ws://.*error|wss://.*error
websocket_error ==
    Regex(TRUE,
          Alt(<<Cat(<<LitI("WebSocket"), AnyStar,
                      Alt(<<LitI("error"), LitI("failed"), LitI("closed")>>)>>),
                Cat(<<LitI("ws://"), AnyStar, LitI("error")>>),
                Cat(<<LitI("wss://"), AnyStar, LitI("error")>>)>>))

\* (?i)Content-Security-Policy|CSP|blocked.*policy|violat.*directive
csp_error ==
    Regex(TRUE,
          Alt(<<LitI("Content-Security-Policy"), LitI("CSP"),
                Cat(<<LitI("blocked"), AnyStar, LitI("policy")>>),
                Cat(<<LitI("violat"), AnyStar, LitI("directive")>>)>>))

\* (?i)SecurityError|security.*violation|insecure|blocked.*security
security_error ==
    Regex(TRUE,
          Alt(<<LitI("SecurityError"),
                Cat(<<LitI("security"), AnyStar, LitI("violation")>>),
                LitI("insecure"),
                Cat(<<LitI("blocked"), AnyStar, LitI("security")>>)>>))

\* (?i)Mixed Content|blocked.*insecure|http://.*https://
mixed_content ==
    Regex(TRUE,
          Alt(<<LitI("Mixed Content"),
                Cat(<<LitI("blocked"), AnyStar, LitI("insecure")>>),
                Cat(<<LitI("http://"), AnyStar, LitI("https://")>>)>>))

\* SB_
storybook == Regex(FALSE, Lit("SB_"))

\* (?i)NEXT_|getServerSideProps|getStaticProps|NextJS|next/
nextjs ==
    Regex(TRUE,
          Alt(<<LitI("NEXT_"), LitI("getServerSideProps"), LitI("getStaticProps"),
                LitI("NextJS"), LitI("next/")>>))

\* (?i)Module not found|Cannot find module|Cannot resolve|ModuleNotFoundError
module_not_found ==
    Regex(TRUE,
          Alt(<<LitI("Module not found"), LitI("Cannot find module"),
                LitI("Cannot resolve"), LitI("ModuleNotFoundError")>>))

\* (?i)locator\.(click|fill|waitFor|check|press|type|hover)|page\.(goto|waitFor|click)
\*     |expect\(.*\)\.(toBeVisible|toHaveText|toBeEnabled|toBeChecked|toContainText)
\*     |TimeoutError.*locator|waiting for locator|strict mode violation|playwright
\*     |@playwright/test
playwright ==
    Regex(TRUE,
          Alt(<<Cat(<<LitI("locator."),
                      Alt(<<LitI("click"), LitI("fill"), LitI("waitFor"), LitI("check"),
                            LitI("press"), LitI("type"), LitI("hover")>>)>>),
                Cat(<<LitI("page."),
                      Alt(<<LitI("goto"), LitI("waitFor"), LitI("click")>>)>>),
                Cat(<<LitI("expect("), AnyStar, LitI(")."),
                      Alt(<<LitI("toBeVisible"), LitI("toHaveText"), LitI("toBeEnabled"),
                            LitI("toBeChecked"), LitI("toContainText")>>)>>),
                Cat(<<LitI("TimeoutError"), AnyStar, LitI("locator")>>),
                LitI("waiting for locator"), LitI("strict mode violation"),
                LitI("playwright"), LitI("@playwright/test")>>))

\* ENOENT|EACCES|ECONNREFUSED|ETIMEDOUT|EADDRINUSE|EPERM
system_error ==
    Regex(FALSE,
          Alt(<<Lit("ENOENT"), Lit("EACCES"), Lit("ECONNREFUSED"), Lit("ETIMEDOUT"),
                Lit("EADDRINUSE"), Lit("EPERM")>>))

\* (?i)Unhandled.*rejection|UnhandledPromiseRejection|promise.*reject
unhandled_rejection ==
    Regex(TRUE,
          Alt(<<Cat(<<LitI("Unhandled"), AnyStar, LitI("rejection")>>),
                LitI("UnhandledPromiseRejection"),
                Cat(<<LitI("promise"), AnyStar, LitI("reject")>>)>>))

\* (?i)MediaError|NotSupportedError.*media|play\(\).*failed|autoplay.*blocked
media_error ==
    Regex(TRUE,
          Alt(<<LitI("MediaError"),
                Cat(<<LitI("NotSupportedError"), AnyStar, LitI("media")>>),
                Cat(<<LitI("play()"), AnyStar, LitI("failed")>>),
                Cat(<<LitI("autoplay"), AnyStar, LitI("blocked")>>)>>))

\* (?i)IndexedDB|IDBDatabase|QuotaExceededError|VersionError
indexeddb_error ==
    Regex(TRUE,
          Alt(<<LitI("IndexedDB"), LitI("IDBDatabase"), LitI("QuotaExceededError"),
                LitI("VersionError")>>))

\* (?i)ServiceWorker|service.*worker.*(?:error|failed)|SW.*(?:error|failed)
service_worker ==
    Regex(TRUE,
          Alt(<<LitI("ServiceWorker"),
                Cat(<<LitI("service"), AnyStar, LitI("worker"), AnyStar,
                      Alt(<<LitI("error"), LitI("failed")>>)>>),
                Cat(<<LitI("SW"), AnyStar, Alt(<<LitI("error"), LitI("failed")>>)>>)>>))

\* (?i)deprecated|deprecation|will be removed|no longer supported
deprecation ==
    Regex(TRUE,
          Alt(<<LitI("deprecated"), LitI("deprecation"), LitI("will be removed"),
                LitI("no longer supported")>>))

\* at .* \(.*:\d+:\d+\)|Error:.*\n.*at\s
stack_trace ==
    Regex(FALSE,
          Alt(<<Cat(<<Lit("at "), AnyStar, Lit(" ("), AnyStar, Lit(":"), Plus(D),
                      Lit(":"), Plus(D), Lit(")")>>),
                Cat(<<Lit("Error:"), AnyStar, Lit("\n"), AnyStar, Lit("at"), Sp>>)>>))

\* [A-Za-z0-9_.-]+\.(mdx|tsx|jsx|ts|js|vue|svelte):\d+
file_location ==
    Regex(FALSE,
          Cat(<<Plus(Cls(WordChar \cup {".", "-"})), Lit("."), SOURCE_EXTENSIONS,
                Lit(":"), Plus(D)>>))

\* <[a-z]+> cannot (?:appear as a |be a )?descendant of <[a-z]+>
dom_issue ==
    Regex(FALSE,
          Cat(<<Lit("<"), Plus(Cls(LowerAlpha)), Lit("> cannot "),
                Opt(Alt(<<Lit("appear as a "), Lit("be a ")>>)),
                Lit("descendant of <"), Plus(Cls(LowerAlpha)), Lit(">")>>))

\* E[A-Z]+:[^\n]*
system_code ==
    Regex(FALSE, Cat(<<Lit("E"), Plus(Cls(UpperAlpha)), Lit(":"), Star(NCls({"\n"}))>>))

\* SB_[A-Z_]+[^\n]*
storybook_code ==
    Regex(FALSE,
          Cat(<<Lit("SB_"), Plus(Cls(UpperAlpha \cup {"_"})), Star(NCls({"\n"}))>>))

\* NEXT_[A-Z_]+|(?:getServerSideProps|getStaticProps)[^\n]*error
nextjs_code ==
    Regex(FALSE,
          Alt(<<Cat(<<Lit("NEXT_"), Plus(Cls(UpperAlpha \cup {"_"}))>>),
                Cat(<<Alt(<<Lit("getServerSideProps"), Lit("getStaticProps")>>),
                      Star(NCls({"\n"})), Lit("error")>>)>>))

\* \b[45]\d{2}\b
http_status == Regex(FALSE, Cat(<<Wb, StatusDigits, Wb>>))

\* (@|at ).+\.(mdx|tsx|jsx|ts|js|vue|svelte):\d+
user_frame ==
    Regex(FALSE,
          Cat(<<Alt(<<Lit("@"), Lit("at ")>>), Plus(Dot), Lit("."), SOURCE_EXTENSIONS,
                Lit(":"), Plus(D)>>))

\* chunk-|node_modules|storybook_internal|webpack|vite|/internal|react-dom
framework_noise ==
    Regex(FALSE,
          Alt(<<Lit("chunk-"), Lit("node_modules"), Lit("storybook_internal"),
                Lit("webpack"), Lit("vite"), Lit("/internal"), Lit("react-dom")>>))

\* at\s+(\w+)\s*\(([^)]+)\)
frame_at_name_loc ==
    Regex(FALSE,
          Cat(<<Lit("at"), Plus(Sp), Grp(1, Plus(W)), Star(Sp), Lit("("),
                Grp(2, Plus(NCls({")"}))), Lit(")")>>))

\* @\s*(\w+)\s*\(([^)]+)\)
frame_at_symbol_loc ==
    Regex(FALSE,
          Cat(<<Lit("@"), Star(Sp), Grp(1, Plus(W)), Star(Sp), Lit("("),
                Grp(2, Plus(NCls({")"}))), Lit(")")>>))

\* (\w+)\s*@\s*(.+)
frame_name_at_loc ==
    Regex(FALSE,
          Cat(<<Grp(1, Plus(W)), Star(Sp), Lit("@"), Star(Sp), Grp(2, Plus(Dot))>>))

\* ([^/]+\.[a-z]+):(\d+)(?::\d+)?$
location_file_line ==
    Regex(FALSE,
          Cat(<<Grp(1, Cat(<<Plus(NCls({"/"})), Lit("."), Plus(Cls(LowerAlpha))>>)),
                Lit(":"), Grp(2, Plus(D)), Opt(Cat(<<Lit(":"), Plus(D)>>)), Eot>>))

-----------------------------------------------------------------------------
(* Error types *)

\* ErrorType::ALL with the general SecurityError, HttpError, TypeError and
\* Storybook moved before MixedContent, ServiceWorker, UnhandledRejection and
\* Playwright: an order C2 excludes
ALL_general_first ==
    <<"DomNesting", "Hydration", "ReactMinified", "InvalidHook", "ReactKey",
      "CorsError", "CspError", "SecurityError", "MixedContent",
      "HttpError", "ServiceWorker", "MediaError", "IndexedDbError",
      "NetworkError", "WebSocketError",
      "Storybook", "Playwright", "NextJs", "ModuleNotFound",
      "TypeError", "UnhandledRejection",
      "RefError", "SyntaxError", "RangeError", "UriError",
      "EvalError",
      "SystemError",
      "Deprecation",
      "RuntimeError">>

\* ErrorType::ALL with the types of JavaScript errors moved to the front, where
\* TypeError shadows the failed fetch of NetworkError: an order C16 excludes
ALL_js_errors_first ==
    <<"TypeError", "RefError", "SyntaxError", "RangeError", "UriError", "EvalError",
      "DomNesting", "Hydration", "ReactMinified", "InvalidHook", "ReactKey",
      "CorsError", "CspError", "MixedContent", "SecurityError",
      "ServiceWorker", "MediaError", "IndexedDbError",
      "NetworkError", "WebSocketError", "HttpError",
      "Playwright", "Storybook", "NextJs", "ModuleNotFound",
      "UnhandledRejection",
      "SystemError",
      "Deprecation",
      "RuntimeError">>

\* ErrorType::ALL, in its order
ALL == <<"DomNesting", "Hydration", "ReactMinified", "InvalidHook", "ReactKey",
         "CorsError", "CspError", "MixedContent", "SecurityError",
         "ServiceWorker", "MediaError", "IndexedDbError",
         "NetworkError", "WebSocketError", "HttpError",
         "Playwright", "Storybook", "NextJs", "ModuleNotFound",
         "UnhandledRejection",
         "TypeError", "RefError", "SyntaxError", "RangeError", "UriError",
         "EvalError",
         "SystemError",
         "Deprecation",
         "RuntimeError">>

\* the variants of enum ErrorType
ErrorType == {ALL[n] : n \in 1..Len(ALL)}

\* ErrorType::name
name(t) ==
    CASE t = "DomNesting" -> "DOM_NESTING"
      [] t = "Hydration" -> "HYDRATION"
      [] t = "ReactMinified" -> "REACT_MINIFIED"
      [] t = "InvalidHook" -> "INVALID_HOOK"
      [] t = "ReactKey" -> "REACT_KEY"
      [] t = "TypeError" -> "TYPE_ERROR"
      [] t = "RefError" -> "REF_ERROR"
      [] t = "SyntaxError" -> "SYNTAX_ERROR"
      [] t = "RangeError" -> "RANGE_ERROR"
      [] t = "UriError" -> "URI_ERROR"
      [] t = "EvalError" -> "EVAL_ERROR"
      [] t = "CorsError" -> "CORS_ERROR"
      [] t = "NetworkError" -> "NETWORK_ERROR"
      [] t = "HttpError" -> "HTTP_ERROR"
      [] t = "WebSocketError" -> "WEBSOCKET_ERROR"
      [] t = "CspError" -> "CSP_ERROR"
      [] t = "SecurityError" -> "SECURITY_ERROR"
      [] t = "MixedContent" -> "MIXED_CONTENT"
      [] t = "Storybook" -> "STORYBOOK"
      [] t = "NextJs" -> "NEXTJS"
      [] t = "ModuleNotFound" -> "MODULE_NOT_FOUND"
      [] t = "Playwright" -> "PLAYWRIGHT"
      [] t = "SystemError" -> "SYSTEM_ERROR"
      [] t = "UnhandledRejection" -> "UNHANDLED_REJECTION"
      [] t = "MediaError" -> "MEDIA_ERROR"
      [] t = "IndexedDbError" -> "INDEXEDDB_ERROR"
      [] t = "ServiceWorker" -> "SERVICE_WORKER"
      [] t = "Deprecation" -> "DEPRECATION"
      [] t = "RuntimeError" -> "RUNTIME_ERROR"

\* ErrorType::pattern
pattern(t) ==
    CASE t = "DomNesting" -> dom_nesting
      [] t = "Hydration" -> hydration
      [] t = "ReactMinified" -> react_minified
      [] t = "InvalidHook" -> invalid_hook
      [] t = "ReactKey" -> react_key
      [] t = "TypeError" -> type_error
      [] t = "RefError" -> ref_error
      [] t = "SyntaxError" -> syntax_error
      [] t = "RangeError" -> range_error
      [] t = "UriError" -> uri_error
      [] t = "EvalError" -> eval_error
      [] t = "CorsError" -> cors_error
      [] t = "NetworkError" -> network_error
      [] t = "HttpError" -> http_error
      [] t = "WebSocketError" -> websocket_error
      [] t = "CspError" -> csp_error
      [] t = "SecurityError" -> security_error
      [] t = "MixedContent" -> mixed_content
      [] t = "Storybook" -> storybook
      [] t = "NextJs" -> nextjs
      [] t = "ModuleNotFound" -> module_not_found
      [] t = "Playwright" -> playwright
      [] t = "SystemError" -> system_error
      [] t = "UnhandledRejection" -> unhandled_rejection
      [] t = "MediaError" -> media_error
      [] t = "IndexedDbError" -> indexeddb_error
      [] t = "ServiceWorker" -> service_worker
      [] t = "Deprecation" -> deprecation
      [] t = "RuntimeError" -> stack_trace

-----------------------------------------------------------------------------
(* Detection *)

\* Iterator::find over ErrorType::ALL[n..]
RECURSIVE detect_from(_, _)
detect_from(text, n) ==
    IF n > Len(ALL) THEN None
    ELSE IF is_match(pattern(ALL[n]), text) THEN Some(ALL[n])
    ELSE detect_from(text, n + 1)

\* the indexes of the entries of ALL whose pattern matches text
Matching(text) == {n \in 1..Len(ALL) : is_match(pattern(ALL[n]), text)}

\* a detection that returns the last matching entry: what C1 excludes
LastOf(M) == IF M = {} THEN None ELSE Some(ALL[MaxOf(M)])
detect_last_match(text) == LastOf(Matching(text))

\* a detection that tries the catch-all first: what C3 excludes
detect_catch_all_first(text) ==
    IF is_match(stack_trace, text) THEN Some("RuntimeError") ELSE detect_from(text, 1)

detect_error_type(text) == detect_from(text, 1)

-----------------------------------------------------------------------------
(* Strings *)

\* the UTF-8 length of a character: the text of this model is ASCII but for
\* the arrow of the statistics lines (three bytes) and the square, which
\* stands for the characters of four bytes such as the emoji
Utf8Len(c) == IF c = "→" THEN 3 ELSE IF c = "▣" THEN 4 ELSE 1

\* str::len: the length in bytes
len(s) == Len(s) + 2 * Cardinality({n \in 1..Len(s) : Utf8Len(CharAt(s, n)) = 3})
                 + 3 * Cardinality({n \in 1..Len(s) : Utf8Len(CharAt(s, n)) = 4})

\* str::find with a string pattern: the position of the first occurrence
str_find(s, needle) ==
    FirstOf({j \in 1..(Len(s) - Len(needle) + 1) :
                SubSeq(s, j, j + Len(needle) - 1) = needle})

\* str::contains
contains(s, needle) == str_find(s, needle) # None

\* str::starts_with
starts_with(s, prefix) ==
    Len(prefix) <= Len(s) /\ SubSeq(s, 1, Len(prefix)) = prefix

\* str::trim_start and str::trim
trim_start(s) == SubSeq(s, 1 + RunLen(WhiteSpace, TRUE, s, 1), Len(s))
trim_end(s) ==
    LET keep == {n \in 1..Len(s) : CharAt(s, n) \notin WhiteSpace}
    IN  IF keep = {} THEN "" ELSE SubSeq(s, 1, MaxOf(keep))
trim(s) == trim_end(trim_start(s))

\* str::lines: the lines of s without their terminators "\n" or "\r\n"; a final
\* empty line is not a line
strip_cr(line) ==
    IF line # "" /\ CharAt(line, Len(line)) = "\r" THEN SubSeq(line, 1, Len(line) - 1)
    ELSE line

RECURSIVE lines(_), lines_split(_, _)
lines(s) == IF s = "" THEN <<>> ELSE lines_split(s, str_find(s, "\n"))
lines_split(s, nl) ==
    IF nl = None THEN <<s>>
    ELSE <<strip_cr(SubSeq(s, 1, Unwrap(nl) - 1))>>
         \o lines(SubSeq(s, Unwrap(nl) + 1, Len(s)))

\* [String]::join
RECURSIVE join(_, _)
join(ls, sep) ==
    IF ls = <<>> THEN ""
    ELSE IF Len(ls) = 1 THEN ls[1]
    ELSE ls[1] \o sep \o join(Tail(ls), sep)

\* str::replace of a character by a string
RECURSIVE replace(_, _, _)
replace(s, from, to) ==
    IF s = "" THEN ""
    ELSE IF Len(s) = 1 THEN (IF s = from THEN to ELSE s)
    ELSE LET h == Len(s) \div 2
         IN  replace(SubSeq(s, 1, h), from, to)
             \o replace(SubSeq(s, h + 1, Len(s)), from, to)

\* Iterator::position: the index of the first element of q that satisfies Test
FirstIndex(q, Test(_)) == FirstOf({n \in 1..Len(q) : Test(q[n])})

-----------------------------------------------------------------------------
(* Utilities *)

\* str::is_char_boundary at byte offset b
is_char_boundary(s, b) == \E n \in 0..Len(s) : len(SubSeq(s, 1, n)) = b

\* &s[..b] for a byte offset b that is a character boundary
ByteSlice(s, b) == SubSeq(s, 1, CHOOSE n \in 0..Len(s) : len(SubSeq(s, 1, n)) = b)

Min(a, b) == IF a <= b THEN a ELSE b

\* a subtraction that leaves a as it is when b does not fit: what C14 excludes
sub_or_keep(a, b) == IF a >= b THEN a - b ELSE a

\* usize::saturating_sub
saturating_sub(a, b) == IF a >= b THEN a - b ELSE 0

\* a cut at b whatever the characters are: what C13 excludes
no_floor(s, b) == b

\* the loop of truncate: the nearest character boundary at or below b
floor_char_boundary(s, b) ==
    MaxOf({c \in 0..b : c = 0 \/ is_char_boundary(s, c)})

\* the byte offset truncate cuts s at: truncate_at, lowered to a boundary
truncate_boundary(s, max_len) ==
    floor_char_boundary(s, Min(saturating_sub(max_len, 3), len(s)))

\* &s[..b] panics when b is not a character boundary of s
slice_panics(s, b) == ~is_char_boundary(s, b)

truncate(s, max_len) ==
    IF len(s) <= max_len THEN s
    ELSE ByteSlice(s, truncate_boundary(s, max_len)) \o "..."

\* what a call of truncate does: None when it panics, else Some(result)
call_truncate(s, max_len) ==
    IF len(s) > max_len /\ slice_panics(s, truncate_boundary(s, max_len))
    THEN None
    ELSE Some(truncate(s, max_len))

-----------------------------------------------------------------------------
(* Extraction *)

\* the text of the line of s around the match m
full_line(s, m) ==
    SubSeq(s,
           MaxOf({0} \cup {j \in 1..(m.start - 1) : CharAt(s, j) = "\n"}) + 1,
           MinOf({Len(s) + 1} \cup {j \in m.end..Len(s) : CharAt(s, j) = "\n"}) - 1)

\* the loop of extract_file_location over all_matches[n..]: the first match whose
\* line does not contain "node_modules"
RECURSIVE first_user_match(_, _, _)
first_user_match(text, all_matches, n) ==
    IF n > Len(all_matches) THEN None
    ELSE IF ~contains(full_line(text, all_matches[n]), "node_modules")
         THEN Some(as_str(text, all_matches[n]))
    ELSE first_user_match(text, all_matches, n + 1)

\* all_matches.first().map(|m| m.as_str().to_string())
first_match(text, all_matches) ==
    IF all_matches # <<>> THEN Some(as_str(text, all_matches[1])) ELSE None

\* a choice that takes the first match wherever it lies: what C6 excludes
location_first_match(text, all_matches) == first_match(text, all_matches)

location_among(text, all_matches) ==
    OrElse(first_user_match(text, all_matches, 1), first_match(text, all_matches))

extract_file_location(text) == location_among(text, find_iter(file_location, text))

extract_first_match(text, p) == OptionMap(find(p, text), LAMBDA m : as_str(text, m))

\* the match of any length: what C24 excludes
extract_first_match_whole(text, p, max_len) == extract_first_match(text, p)

extract_first_match_truncated(text, p, max_len) ==
    OptionMap(extract_first_match(text, p), LAMBDA m : truncate(m, max_len))

\* needles.iter().any(|n| lower.contains(&n.to_lowercase()))
any_needle_in(line, needles) ==
    \E n \in 1..Len(needles) : contains(to_lowercase(line), to_lowercase(needles[n]))

line_containing(ls, needles) ==
    OptionMap(FirstIndex(ls, LAMBDA line : any_needle_in(line, needles)),
              LAMBDA n : trim(ls[n]))

find_line_containing(text, needles) == line_containing(lines(text), needles)

\* the inner loop of the second pass of find_line_starting_with: the position
\* in line of the first prefix, in the order of prefixes, that occurs in it
RECURSIVE first_prefix_in(_, _, _)
first_prefix_in(line, prefixes, n) ==
    IF n > Len(prefixes) THEN None
    ELSE OrElse(str_find(line, prefixes[n]), first_prefix_in(line, prefixes, n + 1))

\* &line[idx..]
from_prefix(line, idx) == SubSeq(line, Unwrap(idx), Len(line))

\* a first pass that trims the white space before the prefix: what C22 excludes
line_starting_with_trimmed(ls, prefixes) ==
    OptionMap(FirstIndex(ls, LAMBDA line :
                  \E n \in 1..Len(prefixes) : starts_with(trim_start(line), prefixes[n])),
              LAMBDA n : ls[n])

\* the first pass: a line that starts with a prefix
line_starting_with(ls, prefixes) ==
    OptionMap(FirstIndex(ls, LAMBDA line :
                  \E n \in 1..Len(prefixes) : starts_with(line, prefixes[n])),
              LAMBDA n : ls[n])

\* the second pass: a line with a prefix anywhere, from the prefix on
line_with_prefix(ls, prefixes) ==
    OptionMap(FirstIndex(ls, LAMBDA line : first_prefix_in(line, prefixes, 1) # None),
              LAMBDA n : from_prefix(ls[n], first_prefix_in(ls[n], prefixes, 1)))

lines_starting_with(ls, prefixes) ==
    OrElse(line_starting_with(ls, prefixes), line_with_prefix(ls, prefixes))

find_line_starting_with(text, prefixes) == lines_starting_with(lines(text), prefixes)

extract_by_pattern_or_contains(text, p, fallback_contains) ==
    OrElse(extract_first_match(text, p),
           find_line_containing(text, <<fallback_contains>>))

\* the error types whose issue is the line that starts with, or else holds, the
\* name of the error, and the prefixes looked for
PrefixTypes == {"ReactKey", "TypeError", "RefError", "SyntaxError", "RangeError",
                "UriError", "EvalError"}

prefixes_of(t) ==
    CASE t = "ReactKey"    -> <<"Encountered two children with the same key">>
      [] t = "TypeError"   -> <<"TypeError:", "Uncaught TypeError">>
      [] t = "RefError"    -> <<"ReferenceError:", "Uncaught ReferenceError">>
      [] t = "SyntaxError" -> <<"SyntaxError:", "Uncaught SyntaxError">>
      [] t = "RangeError"  -> <<"RangeError:", "Uncaught RangeError">>
      [] t = "UriError"    -> <<"URIError:", "Uncaught URIError">>
      [] t = "EvalError"   -> <<"EvalError:", "Uncaught EvalError">>

\* the error types whose issue is the first line that holds one of some words,
\* and the words
NeedleTypes == {"Hydration", "ReactMinified", "InvalidHook", "CorsError",
                "NetworkError", "WebSocketError", "CspError", "SecurityError",
                "MixedContent", "ModuleNotFound", "Playwright", "UnhandledRejection",
                "MediaError", "IndexedDbError", "ServiceWorker", "Deprecation"}

needles_of(t) ==
    CASE t = "Hydration"     -> <<"hydration", "mismatch", "server", "client">>
      [] t = "ReactMinified" -> <<"Minified React error", "react.production">>
      [] t = "InvalidHook"   -> <<"Invalid hook", "Rules of Hooks", "rendered more hooks">>
      [] t = "CorsError"     -> <<"CORS", "Access-Control", "cross-origin", "blocked">>
      [] t = "NetworkError"  -> <<"Failed to fetch", "NetworkError", "net::ERR_", "fetch">>
      [] t = "WebSocketError" -> <<"WebSocket", "ws://", "wss://">>
      [] t = "CspError" -> <<"Content-Security-Policy", "CSP", "directive", "violated">>
      [] t = "SecurityError" -> <<"SecurityError", "security", "blocked">>
      [] t = "MixedContent"  -> <<"Mixed Content", "insecure", "http://">>
      [] t = "ModuleNotFound" ->
           <<"Module not found", "Cannot find module", "Cannot resolve">>
      [] t = "Playwright" ->
           <<"TimeoutError", "locator", "expect(", "waiting for", "strict mode",
             "Timeout">>
      [] t = "UnhandledRejection" -> <<"Unhandled", "rejection", "promise">>
      [] t = "MediaError"     -> <<"MediaError", "play()", "autoplay", "media">>
      [] t = "IndexedDbError" -> <<"IndexedDB", "IDBDatabase", "QuotaExceeded">>
      [] t = "ServiceWorker"  -> <<"ServiceWorker", "service worker", "SW">>
      [] t = "Deprecation"    -> <<"deprecated", "deprecation", "will be removed">>

\* the line of the match of the status itself: what C23 excludes
http_issue_of_match(text, status) ==
    OptionMap(find(http_status, text), LAMBDA m : trim(full_line(text, m)))

\* the HttpError arm: the first line that holds the text of the status match
http_issue(text, status) ==
    IF status = None THEN None ELSE find_line_containing(text, <<Unwrap(status)>>)

\* every line of the text as the issue: what C28 excludes
all_lines(ls) == IF ls = <<>> THEN None ELSE Some(join(ls, "\n"))

\* text.lines().next().map(|s| s.to_string())
first_line(ls) == IF ls = <<>> THEN None ELSE Some(ls[1])

extract_issue(text, t) ==
    CASE t = "DomNesting" -> extract_by_pattern_or_contains(text, dom_issue, "descendant")
      [] t \in NeedleTypes -> find_line_containing(text, needles_of(t))
      [] t \in PrefixTypes -> find_line_starting_with(text, prefixes_of(t))
      [] t = "HttpError" -> http_issue(text, extract_first_match(text, http_status))
      [] t = "Storybook" -> extract_first_match_truncated(text, storybook_code, 100)
      [] t = "NextJs" ->
           OrElse(extract_first_match_truncated(text, nextjs_code, 100),
                  find_line_containing(text,
                      <<"NEXT_", "getServerSideProps", "getStaticProps">>))
      [] t = "SystemError" -> extract_first_match(text, system_code)
      [] t = "RuntimeError" -> first_line(lines(text))

\* Iterator::take
take(q, n) == SubSeq(q, 1, Min(n, Len(q)))

\* Iterator::map(|s| s.trim().to_string())
RECURSIVE map_trim(_)
map_trim(q) == IF q = <<>> THEN <<>> ELSE <<trim(Head(q))>> \o map_trim(Tail(q))

\* an extraction that keeps the frames of dependencies: what C7 excludes
user_frames_with_noise(text) ==
    map_trim(take(SelectSeq(lines(text), LAMBDA line : is_match(user_frame, line)), 3))

extract_user_frames(text) ==
    map_trim(take(SelectSeq(lines(text),
                            LAMBDA line : is_match(user_frame, line)
                                          /\ ~is_match(framework_noise, line)),
                  3))

-----------------------------------------------------------------------------
(* Output model *)

\* ToonifiedError::new
ToonifiedError_new(text, t) ==
    [error_type    |-> t,
     file_location |-> extract_file_location(text),
     issue         |-> extract_issue(text, t),
     frames        |-> extract_user_frames(text),
     original_len  |-> len(text)]

-----------------------------------------------------------------------------
(* Plain formatter *)

\* a percentage that is not kept at 0 when nothing is saved: what C9 excludes
savings_unclamped(original_len, compressed_len) ==
    ((original_len - compressed_len) * 100) \div original_len

\* a percentage of the compressed size: what C29 excludes
savings_of_compressed(original_len, compressed_len) ==
    IF original_len > compressed_len
    THEN ((original_len - compressed_len) * 100) \div compressed_len
    ELSE 0

\* the integer division of the saved percentage: ((orig - comp) * 100) / orig
\* when orig > comp, and 0 otherwise
savings(original_len, compressed_len) ==
    IF original_len > compressed_len
    THEN ((original_len - compressed_len) * 100) \div original_len
    ELSE 0

\* the lines type:, file:, issue: that format_plain, and format_toon with the
\* issue escaped, start with
RecordLines(r, issue_text) ==
    <<"type: " \o name(r.error_type)>>
    \o (IF r.file_location # None THEN <<"file: " \o Unwrap(r.file_location)>> ELSE <<>>)
    \o (IF r.issue # None THEN <<"issue: " \o issue_text>> ELSE <<>>)

\* Iterator::map(|frame| format!("  {}", frame))
RECURSIVE indent(_)
indent(q) == IF q = <<>> THEN <<>> ELSE <<"  " \o Head(q)>> \o indent(Tail(q))

\* "Approximate size of stats line" of format_plain
stats_overhead == 40

\* lines with the header of the frames even without a frame: what C8 excludes
plain_lines_with_header(r) ==
    RecordLines(r, IF r.issue # None THEN Unwrap(r.issue) ELSE "")
    \o <<"frames:">> \o indent(r.frames)

\* the lines of format_plain before the statistics
plain_lines(r) ==
    RecordLines(r, IF r.issue # None THEN Unwrap(r.issue) ELSE "")
    \o (IF r.frames # <<>> THEN <<"frames:">> \o indent(r.frames) ELSE <<>>)

plain_stats(original_len, compressed_len) ==
    "compressed: " \o ToString(original_len) \o "c → " \o ToString(compressed_len)
    \o "c (" \o ToString(savings(original_len, compressed_len)) \o "% saved)"

\* a compressed size without the size of the statistics: what C30 excludes
plain_with_stats_of_content(ls, original_len) ==
    join(ls \o <<"", "---", plain_stats(original_len, len(join(ls, "\n")))>>, "\n")

\* the statistics after the lines ls, whose content is lines.join("\n")
plain_with_stats(ls, original_len) ==
    join(ls \o <<"", "---",
                 plain_stats(original_len, len(join(ls, "\n")) + stats_overhead)>>,
         "\n")

format_plain(r) == plain_with_stats(plain_lines(r), r.original_len)

-----------------------------------------------------------------------------
(* TOON formatter *)

\* Captures::get(n).map(|m| m.as_str()).unwrap_or(default)
group(s, m, n, default) ==
    IF m.caps[n] # None THEN as_str(s, Unwrap(m.caps[n])) ELSE default

\* format!("{}:{}", file, line) of the captures, or the location as it is
file_and_line(loc, captures) ==
    IF captures # None
    THEN group(loc, Unwrap(captures), 1, loc) \o ":" \o group(loc, Unwrap(captures), 2, "")
    ELSE loc

simplify_trimmed(loc) == file_and_line(loc, find(location_file_line, loc))

simplify_location(loc0) == simplify_trimmed(trim(loc0))

\* the (function, location) of a frame matched by one of the frame patterns
ParsedFrame(frame, captures) ==
    <<group(frame, Unwrap(captures), 1, "unknown"),
      simplify_location(group(frame, Unwrap(captures), 2, ""))>>

\* the three patterns in turn: c1, c2, c3 are their captures on frame
first_parsed(frame, c1, c2, c3) ==
    IF c1 # None THEN ParsedFrame(frame, c1)
    ELSE IF c2 # None THEN ParsedFrame(frame, c2)
    ELSE IF c3 # None THEN ParsedFrame(frame, c3)
    ELSE <<frame, "">>

\* the shape NAME @ LOC tried before the two others: what C20 excludes
parse_name_at_first(frame) ==
    first_parsed(frame, find(frame_name_at_loc, frame),
                 find(frame_at_name_loc, frame), find(frame_at_symbol_loc, frame))

parse_trimmed(frame) ==
    first_parsed(frame, find(frame_at_name_loc, frame),
                 find(frame_at_symbol_loc, frame), find(frame_name_at_loc, frame))

parse_frame(frame0) == parse_trimmed(trim(frame0))

\* Iterator::map(|f| parse_frame(f)) and the rows format!("  {},{}", func, loc)
toon_row(parsed) == "  " \o parsed[1] \o "," \o parsed[2]

RECURSIVE frame_rows(_)
frame_rows(q) ==
    IF q = <<>> THEN <<>>
    ELSE <<toon_row(parse_frame(Head(q)))>> \o frame_rows(Tail(q))

\* "Approximate stats line size" of format_toon
stats_line_len == 30

\* an issue emitted as it is: what C10 excludes
no_escape(issue) == issue

\* issue.replace(',', "\\,")
escape_commas(issue) == replace(issue, ",", "\\,")

\* the lines of format_toon before the statistics
\* a header that declares the number of lines so far instead of the number of
\* frames: what C11 excludes
toon_lines_declaring_lines(r) ==
    LET above == RecordLines(r, IF r.issue # None THEN escape_commas(Unwrap(r.issue))
                                ELSE "")
    IN  above
        \o (IF r.frames # <<>>
            THEN <<"frames[" \o ToString(Len(above)) \o "]{fn,loc}:">>
                 \o frame_rows(r.frames)
            ELSE <<>>)

toon_lines(r) ==
    RecordLines(r, IF r.issue # None THEN escape_commas(Unwrap(r.issue)) ELSE "")
    \o (IF r.frames # <<>>
        THEN <<"frames[" \o ToString(Len(r.frames)) \o "]{fn,loc}:">>
             \o frame_rows(r.frames)
        ELSE <<>>)

toon_stats(original_len, compressed_len) ==
    "stats{orig,comp,pct}: " \o ToString(original_len) \o "," \o ToString(compressed_len)
    \o "," \o ToString(savings(original_len, compressed_len))

\* the statistics after the lines ls, whose content is lines.join("\n")
toon_with_stats(ls, original_len) ==
    join(ls \o <<toon_stats(original_len, len(join(ls, "\n")) + stats_line_len)>>, "\n")

format_toon(r) == toon_with_stats(toon_lines(r), r.original_len)

-----------------------------------------------------------------------------
(* Colored formatter.  The escape sequences that colour the text take no    *)
(* column and are left out; a glyph outside the Basic Multilingual Plane    *)
(* (the icons, the package emoji) is written as one stand-in character, and *)
(* the box-drawing characters as "+", "-" and "|": one column each.         *)

\* ErrorType::icon: a one-character glyph, or the empty string
icon(t) ==
    IF t \in {"DomNesting", "Hydration", "ReactMinified", "InvalidHook", "ReactKey",
              "Storybook", "NextJs", "Playwright", "CorsError", "CspError",
              "SecurityError", "MixedContent", "NetworkError", "HttpError",
              "WebSocketError", "ModuleNotFound", "UnhandledRejection", "MediaError",
              "IndexedDbError", "ServiceWorker", "Deprecation"}
    THEN "◆" ELSE ""

\* str::repeat
RECURSIVE repeat(_, _)
repeat(s, n) == IF n <= 0 THEN "" ELSE s \o repeat(s, n - 1)

\* BoxBuilder::horizontal_line
horizontal_line(left, right) == left \o repeat("-", BOX_WIDTH - 2) \o right

\* BoxBuilder::content_line
content_line(text) ==
    LET visible_len == Len(text)
        padding     == saturating_sub(CONTENT_WIDTH, visible_len)
    IN  "| " \o text \o repeat(" ", padding) \o " |"

\* the rows of the frames of format_colored
RECURSIVE frame_box_rows(_)
frame_box_rows(q) ==
    IF q = <<>> THEN <<>>
    ELSE <<content_line("  " \o truncate(Head(q), TRUNCATE_WIDTH - 2))>>
         \o frame_box_rows(Tail(q))

\* the statistics row: plain_len is format_plain(self).len()
colored_stats(original_len, plain_len) ==
    content_line("▣ " \o ToString(original_len) \o "c → " \o ToString(plain_len)
                 \o "c (" \o ToString(savings(original_len, plain_len)) \o "% saved)")

format_colored(r) ==
        join(<<horizontal_line("+", "+"),
               content_line(icon(r.error_type) \o " " \o name(r.error_type)),
               horizontal_line("+", "+")>>
             \o (IF r.file_location # None
                 THEN <<content_line(" " \o Unwrap(r.file_location))>> ELSE <<>>)
             \o (IF r.issue # None
                 THEN <<content_line(" " \o truncate(Unwrap(r.issue), TRUNCATE_WIDTH))>>
                 ELSE <<>>)
             \o (IF r.frames # <<>>
                 THEN <<content_line("frames:")>> \o frame_box_rows(r.frames)
                 ELSE <<>>)
             \o <<horizontal_line("+", "+"),
                  colored_stats(r.original_len, len(format_plain(r))),
                  horizontal_line("+", "+")>>,
             "\n")

-----------------------------------------------------------------------------
(* Texts *)

\* the greatest number of lines after the first line of a text given to
\* extract_user_frames, to extract_file_location and to detect_error_type
MaxStack == 5
MaxLoc == 3
MaxExtra == 1

\* first lines: one or more for each error type, prose, and lines on which
\* the patterns of several error types match
HeadLines ==
    {"validateDOMNesting: <p> cannot be a descendant of <p>",
     "In HTML, <a> cannot appear as a descendant of <a> (validateDOMNesting)",
     "Hydration failed",
     "hydrate\nmismatch",
     "Minified React error #18",
     "Invalid hook call.",
     "Keys should be unique",
     "a.js:2 Encountered two children with the same key, k",
     "blocked by CORS policy",
     "violates the Content-Security-Policy directive",
     "Mixed Content: insecure request",
     "http://a loaded https://b",
     "SecurityError: insecure",
     "ServiceWorker failed (404)",
     "sw.js failed: status 500",
     "play() failed",
     "IndexedDB quota",
     "TypeError: Failed to fetch",
     "WebSocket to wss://h failed",
     "GET /api 404 (Not Found)",
     "status: 500, retry",
     "b.js:404 ok",
     "locator.click: Timeout",
     "playwright SB_X",
     "SB_PREVIEW_API: no api, no preview",
     "Error: getStaticProps error",
     "NEXT_NOT_FOUND",
     "Module not found: ./b",
     "Unhandled Promise Rejection: TypeError: x",
     "TypeError: a, b are undefined",
     "TypeError: a → b, c",
     "b.js:42 TypeError: x",
     "  Uncaught ReferenceError: y",
     "ReferenceError: y",
     "SyntaxError: Unexpected token",
     "RangeError: stack",
     "URIError: malformed",
     "EvalError: e",
     "Error: ENOENT: no such file, open f",
     "x will be deprecated",
     "Error: boom",
     "plain prose with no markers"}

\* second lines and stack lines
\* stack lines: a frame of the user, a frame of a dependency, a frame in the
\* name@location form, and a line that is no frame
UserLine == "  at P (src/P.tsx:4:2)"
NoiseLine == "  at L (node_modules/l.js:8:3)"
FrameLines == {UserLine, NoiseLine, " r@src/a.vue:7 "}
StackLines == FrameLines \cup {"  at p"}

\* second lines
ExtraLines == {"TypeError: t", "insecure status 503", UserLine}

\* the texts of at most n lines of L, each line ended by a line feed
RECURSIVE LinesUpTo(_, _)
LinesUpTo(L, n) ==
    IF n = 0 THEN {""}
    ELSE LET shorter == LinesUpTo(L, n - 1)
         IN  shorter \cup {l \o "\n" \o s : l \in L, s \in shorter}

\* a first line followed by the lines of tail
WithTail(heads, tails) ==
    {IF tl = "" THEN h ELSE h \o "\n" \o SubSeq(tl, 1, Len(tl) - 1) :
        h \in heads, tl \in tails}

\* the texts given to detect_error_type
DetectTexts ==
    {"", " ", "\n"} \cup WithTail(HeadLines, LinesUpTo(ExtraLines, MaxExtra))

\* the texts given to extract_user_frames
FrameTexts == {""} \cup WithTail({"Error: boom"}, LinesUpTo(FrameLines, MaxStack))

\* the texts given to extract_file_location: a first line without a location
\* or with one beside the name of a dependency, then stack lines
LocTexts ==
    {""} \cup WithTail({"Error: boom", "x.js:1 in node_modules"},
                       LinesUpTo({UserLine, NoiseLine, "  at p"}, MaxLoc))

\* n frames of a dependency, each ended by a line feed
RECURSIVE NoiseTail(_)
NoiseTail(n) == IF n = 0 THEN "" ELSE NoiseLine \o "\n" \o NoiseTail(n - 1)

\* frames of the code of the user whose file name holds a comma
CommaLines == {"  at O.r (src/a,b.tsx:4:2)", " r@src/x,y.vue:7"}

\* a frame of a file whose name is longer than the interior of the box
LongFileLine == "  at F (src/AVeryLongComponentNameForTheSettingsPage.tsx:4:2)"

\* texts a little longer than their Plain rendering: a message, two frames
\* without a file, and up to MaxTrail spaces
MaxTrail == 6

AnonLine == "    at Array.map (<anonymous>)"

SizeTexts ==
    {"TypeError: Cannot read properties of undefined (reading 'map')\n"
     \o AnonLine \o "\n" \o AnonLine \o repeat(" ", k) : k \in 0..MaxTrail}

\* the texts records are built from: each first line alone and with one stack
\* line, and some first lines above the frames of a dependency
RecordTexts ==
    WithTail(HeadLines, LinesUpTo(StackLines, 1))
    \cup WithTail({"Error: boom"}, LinesUpTo(CommaLines \cup {UserLine}, 2))
    \cup WithTail({"TypeError: a long message about a value that is not defined"},
                  LinesUpTo({LongFileLine, UserLine}, 1))
    \cup SizeTexts
    \cup WithTail({"TypeError: a, b are undefined", "GET /api 404 (Not Found)",
                   "Error: boom"},
                  {NoiseTail(n) : n \in 2..MaxStack}
                  \cup {UserLine \o "\n" \o tl : tl \in LinesUpTo(StackLines, 2)})

\* the strings truncate is called with: every string of at most MaxChars
\* characters of one, three and four bytes
MaxChars == 4
MaxWidth == 10

RECURSIVE StringsUpTo(_, _)
StringsUpTo(chars, n) ==
    IF n = 0 THEN {""}
    ELSE LET shorter == StringsUpTo(chars, n - 1)
         IN  shorter \cup {c \o s : c \in chars, s \in shorter}

TruncTexts == StringsUpTo({"a", "→", "▣"}, MaxChars)

\* one text of each category, as the tests of the detection have one
SampleOf(t) ==
    CASE t = "DomNesting" -> "validateDOMNesting: <p> cannot be a descendant of <p>"
      [] t = "Hydration" -> "Hydration failed"
      [] t = "ReactMinified" -> "Minified React error #18"
      [] t = "InvalidHook" -> "Invalid hook call."
      [] t = "ReactKey" -> "Keys should be unique"
      [] t = "CorsError" -> "blocked by CORS policy"
      [] t = "CspError" -> "violates the Content-Security-Policy directive"
      [] t = "MixedContent" -> "Mixed Content: insecure request"
      [] t = "SecurityError" -> "SecurityError: insecure"
      [] t = "ServiceWorker" -> "ServiceWorker failed (404)"
      [] t = "MediaError" -> "play() failed"
      [] t = "IndexedDbError" -> "IndexedDB quota"
      [] t = "NetworkError" -> "TypeError: Failed to fetch"
      [] t = "WebSocketError" -> "WebSocket to wss://h failed"
      [] t = "HttpError" -> "GET /api 404 (Not Found)"
      [] t = "Playwright" -> "locator.click: Timeout"
      [] t = "Storybook" -> "SB_PREVIEW_API: no api, no preview"
      [] t = "NextJs" -> "NEXT_NOT_FOUND"
      [] t = "ModuleNotFound" -> "Module not found: ./b"
      [] t = "UnhandledRejection" -> "Unhandled Promise Rejection: TypeError: x"
      [] t = "TypeError" -> "TypeError: a, b are undefined"
      [] t = "RefError" -> "ReferenceError: y"
      [] t = "SyntaxError" -> "SyntaxError: Unexpected token"
      [] t = "RangeError" -> "RangeError: stack"
      [] t = "UriError" -> "URIError: malformed"
      [] t = "EvalError" -> "EvalError: e"
      [] t = "SystemError" -> "Error: ENOENT: no such file, open f"
      [] t = "Deprecation" -> "x will be deprecated"
      [] t = "RuntimeError" -> "Error: boom\n    at MyComponent (App.tsx:25:10)"

\* the locations simplify_location is called with: a file name after a scheme
\* and host, a directory path or nothing, with or without a query component, a
\* line number and a column number, and with or without blanks around
LocPrefixes == {"", "/a/b.c/", "http://h:3/s/", "webpack://app/./src/"}
LocFiles == {"App.tsx", "b.test.js"}
LocQueries == {"", "?v=1"}
LocLines == {None, Some("42")}
LocColumns == {None, Some("10")}

LocParts ==
    {p \in [prefix : LocPrefixes, file : LocFiles, query : LocQueries,
            line : LocLines, column : LocColumns, blank : {"", " "}] :
        p.line = None => p.column = None}

\* the location made of the parts p
LocOf(p) ==
    p.blank \o p.prefix \o p.file \o p.query
    \o (IF p.line # None THEN ":" \o Unwrap(p.line) ELSE "")
    \o (IF p.column # None THEN ":" \o Unwrap(p.column) ELSE "")
    \o p.blank

\* the frames parse_frame is called with: frame is the text, and shapes[k] is
\* the <<NAME, LOC>> the frame holds in the k-th shape, if it holds one
FrameLocs == {"src/P.tsx:4:2", "http://h:3/s/App.tsx:42", "native"}

FrameCase(frame, at_name_loc, at_symbol_loc, name_at_loc) ==
    [frame |-> frame, shapes |-> <<at_name_loc, at_symbol_loc, name_at_loc>>]

FrameCasesOf(loc) ==
    {FrameCase("at N (" \o loc \o ")", Some(<<"N", loc>>), None, None),
     FrameCase("  at  N(" \o loc \o ") ", Some(<<"N", loc>>), None, None),
     FrameCase("@ N (" \o loc \o ")", None, Some(<<"N", loc>>), None),
     FrameCase("N @ " \o loc, None, None, Some(<<"N", loc>>)),
     FrameCase(" N@" \o loc \o " ", None, None, Some(<<"N", loc>>)),
     FrameCase("at N (" \o loc \o ") @ M (x.js:1)",
               Some(<<"N", loc>>), Some(<<"M", "x.js:1">>), None),
     FrameCase("f@at N (" \o loc \o ")",
               Some(<<"N", loc>>), None, Some(<<"f", "at N (" \o loc \o ")">>)),
     FrameCase("f@ N (" \o loc \o ")",
               None, Some(<<"N", loc>>), Some(<<"f", "N (" \o loc \o ")">>)),
     FrameCase("at N " \o loc, None, None, None)}

FrameCases ==
    UNION {FrameCasesOf(loc) : loc \in FrameLocs}
    \cup {FrameCase("some random text without pattern", None, None, None),
          FrameCase("", None, None, None),
          FrameCase("   ", None, None, None)}

\* texts a record of each category is built from: the empty text, and texts
\* where the words the patterns look for lie on several lines, some ended by
\* a carriage return and a line feed
CrossTexts ==
    {"",
     "<p> cannot be a\ndescendant of <p>\r\nSB_X y\r\nNEXT_A\ngetStaticProps\nerror ENOENT: x\n403",
     "a.js:2 Uncaught TypeError: t\r\n at P (src/P.tsx:4:2)\r\n\n r@src/a.vue:7\nE: fetch blocked"}

\* the texts extract_issue is called with, each with its category: text is
\* the text, t the category and code the match of the code pattern of the
\* category the text was written to hold, None when it holds none
MaxIssueLines == 2
MaxOver == 3

IssueCase(text, t, code) == [text |-> text, t |-> t, code |-> code]

\* lines about the prefixes of t: a prefix at the start of the line, after white
\* space, after the position of the browser console, and no prefix
IssueLinesOf(t) ==
    LET ps == prefixes_of(t)
    IN  {ps[1] \o " a", "  " \o ps[1] \o " b",
         "x.js:2 " \o ps[Len(ps)] \o " c", "  at p"}

PrefixCases ==
    UNION {{IssueCase(text, t, None) : text \in LinesUpTo(IssueLinesOf(t), MaxIssueLines)} :
              t \in PrefixTypes}

\* lines with and without a standalone status
StatusLines == {" GET /api 404 (Not Found) ", "x1404y", "503", "port 4040 id_500"}

HttpCases ==
    {IssueCase(text, "HttpError", None) : text \in LinesUpTo(StatusLines, MaxIssueLines)}

\* codes of n bytes: the name and a filler of characters of one byte, or of
\* three bytes as far as they fit
Padded(code, filler, n) ==
    code \o repeat(filler, (n - len(code)) \div len(filler))
         \o repeat("x", (n - len(code)) % len(filler))

\* the lengths of the codes: short ones and the ones around the limit of 100
CodeLengths == {20} \cup (97..(100 + MaxOver))

CodesOf(t) ==
    IF t = "Storybook"
    THEN {Padded("SB_A ", f, n) : f \in {"x", "→"}, n \in CodeLengths}
    ELSE {"NEXT_REDIRECT"}
         \cup {Padded("getStaticProps ", f, n - 5) \o "error" :
                 f \in {"x", "→"}, n \in CodeLengths}

CodeCases ==
    UNION {{IssueCase("Error in " \o code \o "\n  at p", t, Some(code)) : code \in CodesOf(t)}
           \cup {IssueCase("getStaticProps failed", t, None)} :
              t \in {"Storybook", "NextJs"}}

IssueCases == PrefixCases \cup HttpCases \cup CodeCases

\* what read_input can return
Inputs ==
    {"", " \n"} \cup WithTail({"TypeError: a, b are undefined",
                                "GET /api 404 (Not Found)",
                                "Error: boom",
                                "plain prose with no markers",
                                "note: see a, b"},
                               {"", UserLine \o "\n", NoiseLine \o "\n"})

-----------------------------------------------------------------------------
(* The registry of the patterns: static PATTERNS: Lazy<Patterns> *)

\* the threads that can use PATTERNS at once, and the uses each makes
MaxThreads == 3
MaxUses == 2
Threads == 1..MaxThreads

\* Lazy::new(Patterns::compile): nothing is compiled yet
Lazy_new == [state |-> "incomplete", value |-> None, compiled |-> 0]

\* what Patterns::compile returns when every pattern is well formed
Compiled == Some("Patterns")

\* the dereference of PATTERNS by the only thread there is: Patterns::compile
\* runs if it has not run yet
force(cell) ==
    IF cell.state = "complete" THEN cell
    ELSE [state |-> "complete", value |-> Compiled, compiled |-> cell.compiled + 1]

\* no other thread than the one of main, or of the test
MainOnly == [t \in {} |-> 0]

-----------------------------------------------------------------------------
(* main *)

Args == [no_copy : BOOLEAN, plain : BOOLEAN, toon : BOOLEAN]

NoCall == [fn |-> "none", arg |-> None, ret |-> None]

Init ==
    /\ pc = "start"
    /\ args \in Args
    /\ tty \in BOOLEAN
    /\ color_override = None
    /\ input = ""
    /\ error_type = None
    /\ result = None
    /\ copyable_output = ""
    /\ stdout = ""
    /\ stderr = <<>>
    /\ exit_code = None
    /\ clipboard = <<>>
    /\ calls = <<>>
    /\ unit = NoCall
    /\ patterns_ok \in BOOLEAN
    /\ PATTERNS = Lazy_new
    /\ threads = MainOnly

\* eprintln!
eprintln(msg) == stderr' = Append(stderr, msg)

\* println!
println(text) == stdout' = stdout \o text \o "\n"

\* exit_with_error, after the messages err on standard error
exit_with_error(err, msg) ==
    /\ stderr' = Append(err, "Error: " \o msg)
    /\ exit_code' = Some(1)
    /\ pc' = "exited"

\* main, up to read_input: Args::parse and the colour override
Start ==
    /\ pc = "start"
    /\ color_override' = IF args.plain \/ ~tty THEN Some(FALSE) ELSE color_override
    /\ pc' = "read"
    /\ UNCHANGED <<args, tty, input, error_type, result, copyable_output, stdout,
                   stderr, exit_code, clipboard, calls, unit>>
    /\ UNCHANGED lazy_vars

\* standard error after read_input: with prompt, standard input is a terminal
\* and the clipboard gave no text, so read_input has asked for a paste
AfterRead(prompt) ==
    IF prompt
    THEN Append(stderr, "Clipboard empty. Paste error below, then press Ctrl+D:")
    ELSE stderr

\* read_input returned Ok(s) with text in it: from the pipe or the clipboard
\* (prompt = FALSE), or pasted after the prompt
ReadInput ==
    /\ pc = "read"
    /\ \E s \in Inputs, prompt \in BOOLEAN :
          /\ trim(s) # ""
          /\ input' = s
          /\ stderr' = AfterRead(prompt)
    /\ pc' = "detect"
    /\ UNCHANGED <<args, tty, color_override, error_type, result, copyable_output,
                   stdout, exit_code, clipboard, calls, unit>>
    /\ UNCHANGED lazy_vars

\* a main that goes on with a text of white space: what C26 excludes
ReadEmpty_goes_on ==
    /\ pc = "read"
    /\ \E s \in Inputs, prompt \in BOOLEAN :
          /\ trim(s) = ""
          /\ input' = s
          /\ stderr' = AfterRead(prompt)
    /\ pc' = "detect"
    /\ UNCHANGED <<args, tty, color_override, error_type, result, copyable_output,
                   stdout, exit_code, clipboard, calls, unit>>
    /\ UNCHANGED lazy_vars

\* read_input returned Ok(s) with s.trim().is_empty(): from the pipe, or pasted
ReadEmpty ==
    /\ pc = "read"
    /\ \E s \in Inputs, prompt \in BOOLEAN :
          /\ trim(s) = ""
          /\ input' = s
          /\ exit_with_error(AfterRead(prompt),
                             "No input. Copy an error to clipboard or pipe it in.")
    /\ UNCHANGED <<args, tty, color_override, error_type, result, copyable_output,
                   stdout, clipboard, calls, unit>>
    /\ UNCHANGED lazy_vars

\* read_input returned Err: read_to_string failed on the pipe or on the paste
ReadFailed ==
    /\ pc = "read"
    /\ \E prompt \in BOOLEAN : exit_with_error(AfterRead(prompt), "Failed to read stdin")
    /\ UNCHANGED <<args, tty, color_override, input, error_type, result,
                   copyable_output, stdout, clipboard, calls, unit>>
    /\ UNCHANGED lazy_vars

\* a match that goes on with RuntimeError for a text without a category: what
\* C4 excludes
Detect_default_category ==
    /\ pc = "detect"
    /\ patterns_ok
    /\ PATTERNS' = force(PATTERNS)
    /\ error_type' = OrElse(detect_error_type(input), Some("RuntimeError"))
    /\ calls' = Append(calls, "detect_error_type")
    /\ pc' = "build"
    /\ UNCHANGED <<args, tty, color_override, input, result, copyable_output,
                   stdout, stderr, exit_code, clipboard, unit>>
    /\ UNCHANGED <<patterns_ok, threads>>

\* let error_type = match detect_error_type(&input) { ... }
Detect ==
    /\ pc = "detect"
    /\ patterns_ok
    /\ PATTERNS' = force(PATTERNS)
    /\ LET t == detect_error_type(input)
       IN  /\ error_type' = t
           /\ calls' = Append(calls, "detect_error_type")
           /\ IF t = None
              THEN /\ eprintln("Not a recognizable error. Passing through.")
                   /\ println(input)
                   /\ exit_code' = Some(0)
                   /\ pc' = "done"
              ELSE /\ pc' = "build"
                   /\ UNCHANGED <<stdout, stderr, exit_code>>
    /\ UNCHANGED <<args, tty, color_override, input, result, copyable_output,
                   clipboard, unit>>
    /\ UNCHANGED <<patterns_ok, threads>>

\* detect_error_type dereferences PATTERNS for the first time and a Regex::new
\* of Patterns::compile returns Err: expect panics in re, and the process ends
CompileFailed ==
    /\ pc = "detect"
    /\ ~patterns_ok
    /\ PATTERNS' = [PATTERNS EXCEPT !.state = "poisoned"]
    /\ eprintln("thread 'main' panicked: Invalid regex pattern")
    /\ exit_code' = Some(101)
    /\ pc' = "panicked"
    /\ UNCHANGED <<args, tty, color_override, input, error_type, result,
                   copyable_output, stdout, clipboard, calls, unit, patterns_ok,
                   threads>>

\* let result = ToonifiedError::new(&input, error_type)
Build ==
    /\ pc = "build"
    /\ result' = Some(ToonifiedError_new(input, Unwrap(error_type)))
    /\ calls' = calls \o <<"ToonifiedError::new", "extract_file_location",
                           "extract_issue", "extract_user_frames">>
    /\ pc' = "display"
    /\ UNCHANGED <<args, tty, color_override, input, error_type, copyable_output,
                   stdout, stderr, exit_code, clipboard, unit>>
    /\ UNCHANGED lazy_vars

\* the selection of the output format and its display
Display ==
    /\ pc = "display"
    /\ LET out == IF args.toon THEN format_toon(Unwrap(result))
                  ELSE format_plain(Unwrap(result))
       IN  /\ copyable_output' = out
           /\ IF args.toon \/ args.plain \/ ~tty
              THEN println(out)
              ELSE println(format_colored(Unwrap(result)))
    /\ calls' = Append(calls, IF args.toon THEN "format_toon" ELSE "format_plain")
    /\ pc' = "copy"
    /\ UNCHANGED <<args, tty, color_override, input, error_type, result, stderr,
                   exit_code, clipboard, unit>>
    /\ UNCHANGED lazy_vars

\* a copy whatever standard output is: what C27 excludes
should_copy_when_piped == ~args.no_copy

should_copy == ~args.no_copy /\ tty

format_name == IF args.toon THEN "TOON" ELSE "plain"

\* no copy is asked for: main returns
NoCopy ==
    /\ pc = "copy"
    /\ ~should_copy
    /\ exit_code' = Some(0)
    /\ pc' = "done"
    /\ UNCHANGED <<args, tty, color_override, input, error_type, result,
                   copyable_output, stdout, stderr, clipboard, calls, unit>>
    /\ UNCHANGED lazy_vars

\* Clipboard::new() is Ok and set_text is Ok or Err
Copy ==
    /\ pc = "copy"
    /\ should_copy
    /\ \E ok \in BOOLEAN :
          /\ clipboard' = Append(clipboard, [text |-> copyable_output, ok |-> ok])
          /\ IF ok THEN eprintln("▤ Copied to clipboard (" \o format_name \o ")")
             ELSE eprintln("⚠ Failed to write to clipboard")
    /\ exit_code' = Some(0)
    /\ pc' = "done"
    /\ UNCHANGED <<args, tty, color_override, input, error_type, result,
                   copyable_output, stdout, calls, unit>>
    /\ UNCHANGED lazy_vars

\* Clipboard::new() is Err
ClipboardUnavailable ==
    /\ pc = "copy"
    /\ should_copy
    /\ eprintln("⚠ Clipboard not available")
    /\ exit_code' = Some(0)
    /\ pc' = "done"
    /\ UNCHANGED <<args, tty, color_override, input, error_type, result,
                   copyable_output, stdout, clipboard, calls, unit>>
    /\ UNCHANGED lazy_vars

Next ==
    \/ Start
    \/ ReadInput
    \/ ReadEmpty
    \/ ReadFailed
    \/ Detect
    \/ CompileFailed
    \/ Build
    \/ Display
    \/ NoCopy
    \/ Copy
    \/ ClipboardUnavailable

Spec == Init /\ [][Next]_vars

-----------------------------------------------------------------------------
(* The unit tests: one call of a function of the core on a text *)

InitUnit ==
    /\ pc = "test"
    /\ args = [no_copy |-> TRUE, plain |-> FALSE, toon |-> FALSE]
    /\ tty = FALSE
    /\ color_override = None
    /\ input = ""
    /\ error_type = None
    /\ result = None
    /\ copyable_output = ""
    /\ stdout = ""
    /\ stderr = <<>>
    /\ exit_code = None
    /\ clipboard = <<>>
    /\ calls = <<>>
    /\ unit = NoCall
    /\ patterns_ok = TRUE
    /\ PATTERNS = Lazy_new
    /\ threads = MainOnly

\* the call fn(arg) returned ret
Returned(fn, arg, ret) ==
    /\ unit' = [fn |-> fn, arg |-> arg, ret |-> ret]
    /\ pc' = "tested"
    /\ PATTERNS' = IF fn = "truncate" THEN PATTERNS ELSE force(PATTERNS)
    /\ UNCHANGED <<patterns_ok, threads>>
    /\ UNCHANGED <<args, tty, color_override, error_type, result, copyable_output,
                   stdout, stderr, exit_code, clipboard, calls>>

Test_detect_error_type ==
    /\ pc = "test"
    /\ \E text \in DetectTexts :
          /\ input' = text
          /\ Returned("detect_error_type", text, detect_error_type(text))

Test_extract_file_location ==
    /\ pc = "test"
    /\ \E text \in LocTexts :
          /\ input' = text
          /\ Returned("extract_file_location", text, extract_file_location(text))

Test_extract_user_frames ==
    /\ pc = "test"
    /\ \E text \in FrameTexts :
          /\ input' = text
          /\ Returned("extract_user_frames", text, extract_user_frames(text))

\* the error type a record is built with: the one detected, RuntimeError for a
\* text that has none
TypeFor(text) == OrElse(detect_error_type(text), Some("RuntimeError"))

Test_new ==
    /\ pc = "test"
    /\ \E text \in RecordTexts :
          /\ input' = text
          /\ Returned("ToonifiedError::new", text,
                      ToonifiedError_new(text, Unwrap(TypeFor(text))))

\* the tests that build a record with a category of their choice
Test_new_each_type ==
    /\ pc = "test"
    /\ \E text \in CrossTexts, t \in ErrorType :
          /\ input' = text
          /\ Returned("ToonifiedError::new", text, ToonifiedError_new(text, t))

\* a test has built a record of the text input, and renders it
Built == pc = "tested" /\ unit.fn = "ToonifiedError::new"

Test_format_plain ==
    /\ Built
    /\ Returned("format_plain", unit.ret, format_plain(unit.ret))
    /\ UNCHANGED input

Test_format_toon ==
    /\ Built
    /\ Returned("format_toon", unit.ret, format_toon(unit.ret))
    /\ UNCHANGED input

Test_format_colored ==
    /\ Built
    /\ Returned("format_colored", unit.ret, format_colored(unit.ret))
    /\ UNCHANGED input

\* the tests of extract_issue: unit.arg is the case, text and category
Test_extract_issue ==
    /\ pc = "test"
    /\ \E c \in IssueCases :
          /\ input' = c.text
          /\ Returned("extract_issue", c, extract_issue(c.text, c.t))

\* the tests of truncate: unit.arg is <<s, max_len>>, unit.ret is None when the
\* call panicked
Test_truncate ==
    /\ pc = "test"
    /\ \E s \in TruncTexts, max_len \in 0..MaxWidth :
          /\ input' = s
          /\ Returned("truncate", <<s, max_len>>, call_truncate(s, max_len))

\* the tests of the detection, one after the other: unit.arg is the text of
\* each category and unit.ret what detect_error_type returned for it
Test_detect_each_type ==
    /\ pc = "test"
    /\ Returned("detect_error_type of each", [t \in ErrorType |-> SampleOf(t)],
                [t \in ErrorType |-> detect_error_type(SampleOf(t))])
    /\ UNCHANGED input

\* the tests of simplify_location: unit.arg is the parts of the location
Test_simplify_location ==
    /\ pc = "test"
    /\ \E p \in LocParts :
          /\ input' = LocOf(p)
          /\ Returned("simplify_location", p, simplify_location(LocOf(p)))

\* the tests of parse_frame: unit.arg is the frame and the shapes it holds
Test_parse_frame ==
    /\ pc = "test"
    /\ \E c \in FrameCases :
          /\ input' = c.frame
          /\ Returned("parse_frame", c, parse_frame(c.frame))

NextUnit ==
    \/ Test_truncate
    \/ Test_simplify_location
    \/ Test_parse_frame
    \/ Test_detect_each_type
    \/ Test_detect_error_type
    \/ Test_extract_file_location
    \/ Test_extract_user_frames
    \/ Test_new
    \/ Test_new_each_type
    \/ Test_format_plain
    \/ Test_format_toon
    \/ Test_format_colored
    \/ Test_extract_issue

SpecUnit == InitUnit /\ [][NextUnit]_vars

-----------------------------------------------------------------------------
(* The threads of the tests, which use PATTERNS at once.  Lazy is the one of  *)
(* the crate once_cell: its dereference loads the state of the cell, claims  *)
(* an incomplete cell by a compare-and-exchange, runs Patterns::compile,     *)
(* stores the value and publishes the state; a thread that finds the cell    *)
(* running waits for the state to change.                                    *)

InitThreads ==
    /\ pc = "threads"
    /\ args = [no_copy |-> TRUE, plain |-> FALSE, toon |-> FALSE]
    /\ tty = FALSE
    /\ color_override = None
    /\ input = ""
    /\ error_type = None
    /\ result = None
    /\ copyable_output = ""
    /\ stdout = ""
    /\ stderr = <<>>
    /\ exit_code = None
    /\ clipboard = <<>>
    /\ calls = <<>>
    /\ unit = NoCall
    /\ patterns_ok = TRUE
    /\ PATTERNS = Lazy_new
    /\ threads = [t \in Threads |-> [pc |-> "idle", seen |-> <<>>, left |-> MaxUses]]

\* the thread t goes to the step at
GoTo(t, at) == threads' = [threads EXCEPT ![t].pc = at]

\* where a thread goes that has found the cell in the state s
After(s) ==
    CASE s = "complete" -> "read"
      [] s = "incomplete" -> "claim"
      [] s = "running" -> "wait"

main_vars == <<pc, args, tty, color_override, input, error_type, result,
               copyable_output, stdout, stderr, exit_code, clipboard, calls, unit,
               patterns_ok>>

\* a use of PATTERNS begins: the thread loads the state of the cell
Load(t) ==
    /\ threads[t].pc = "idle"
    /\ threads[t].left > 0
    /\ GoTo(t, After(PATTERNS.state))
    /\ UNCHANGED <<main_vars, PATTERNS>>

\* a claim that stores the state without comparing it: what C17 excludes
Claim_without_compare(t) ==
    /\ threads[t].pc = "claim"
    /\ PATTERNS' = [PATTERNS EXCEPT !.state = "running"]
    /\ GoTo(t, "compile")
    /\ UNCHANGED main_vars

\* the compare-and-exchange of incomplete for running: the thread that wins it
\* initializes the cell, the others go by the state they find
Claim(t) ==
    /\ threads[t].pc = "claim"
    /\ IF PATTERNS.state = "incomplete"
       THEN /\ PATTERNS' = [PATTERNS EXCEPT !.state = "running"]
            /\ GoTo(t, "compile")
       ELSE /\ GoTo(t, After(PATTERNS.state))
            /\ UNCHANGED PATTERNS
    /\ UNCHANGED main_vars

\* Patterns::compile runs
Compile(t) ==
    /\ threads[t].pc = "compile"
    /\ PATTERNS' = [PATTERNS EXCEPT !.compiled = @ + 1]
    /\ GoTo(t, "store")
    /\ UNCHANGED main_vars

\* the Patterns are stored in the cell
Store(t) ==
    /\ threads[t].pc = "store"
    /\ PATTERNS' = [PATTERNS EXCEPT !.value = Compiled]
    /\ GoTo(t, "publish")
    /\ UNCHANGED main_vars

\* the state complete is published, which wakes the threads that wait
Publish(t) ==
    /\ threads[t].pc = "publish"
    /\ PATTERNS' = [PATTERNS EXCEPT !.state = "complete"]
    /\ GoTo(t, "read")
    /\ UNCHANGED main_vars

\* a thread that waited finds the state changed
Wake(t) ==
    /\ threads[t].pc = "wait"
    /\ PATTERNS.state # "running"
    /\ GoTo(t, After(PATTERNS.state))
    /\ UNCHANGED <<main_vars, PATTERNS>>

\* the thread reads the patterns of the cell: PATTERNS.type_error and the like
Read(t) ==
    /\ threads[t].pc = "read"
    /\ threads' = [threads EXCEPT ![t] = [pc |-> "idle",
                                          seen |-> Append(@.seen, PATTERNS.value),
                                          left |-> @.left - 1]]
    /\ UNCHANGED <<main_vars, PATTERNS>>

NextThreads ==
    \E t \in Threads :
        \/ Load(t)
        \/ Claim(t)
        \/ Compile(t)
        \/ Store(t)
        \/ Publish(t)
        \/ Wake(t)
        \/ Read(t)

SpecThreads == InitThreads /\ [][NextThreads]_vars

-----------------------------------------------------------------------------
(* Properties of the classification *)

\* a test has called detect_error_type(unit.arg), which returned unit.ret
Detected == pc = "tested" /\ unit.fn = "detect_error_type"

\* C1: detect_error_type returns the category of the first entry of
\* ErrorType::ALL, in its order, whose pattern matches the text, and returns no
\* category exactly when no pattern matches, as for the empty string.
\* ret is the category of the first of the entries M of ALL, None if M is empty
IsFirstOf(M, ret) ==
    /\ (ret = None) <=> (M = {})
    /\ M # {} => ret = Some(ALL[MinOf(M)])

C1_FirstMatchingEntry ==
    Detected =>
        /\ IsFirstOf(Matching(unit.arg), unit.ret)
        /\ unit.arg = "" => unit.ret = None

\* a text that several patterns match was given the category of the first
SeveralAndFirst(M, ret) == Cardinality(M) >= 2 /\ ret = Some(ALL[MinOf(M)])

C1_Witness == Detected /\ SeveralAndFirst(Matching(unit.arg), unit.ret)

\* the documented ordering pairs: <<specific, general>>
OrderingPairs ==
    {<<"MixedContent", "SecurityError">>, <<"ServiceWorker", "HttpError">>,
     <<"Playwright", "Storybook">>}
    \cup {<<"UnhandledRejection", t>> :
             t \in {"TypeError", "RefError", "SyntaxError", "RangeError", "UriError",
                    "EvalError"}}

BothMatch(p, text) == is_match(pattern(p[1]), text) /\ is_match(pattern(p[2]), text)

\* C2: a text that matches both patterns of an ordering pair is never given the
\* second, more general, category of the pair.
C2_SpecificBeforeGeneral ==
    Detected =>
        \A p \in OrderingPairs : BothMatch(p, unit.arg) => unit.ret # Some(p[2])

\* a text that both patterns of a pair match was given the specific category
C2_Witness ==
    /\ Detected
    /\ \E p \in OrderingPairs : BothMatch(p, unit.arg) /\ unit.ret = Some(p[1])

\* C3: the catch-all is the last entry, and RuntimeError is returned only for a
\* text that matches the stack-trace pattern and none of the other 28 patterns.
C3_CatchAllLast ==
    /\ ALL[Len(ALL)] = "RuntimeError"
    /\ Detected /\ unit.ret = Some("RuntimeError") =>
          /\ is_match(stack_trace, unit.arg)
          /\ \A t \in ErrorType \ {"RuntimeError"} : ~is_match(pattern(t), unit.arg)

\* a text was classified as RuntimeError
C3_Witness == Detected /\ unit.ret = Some("RuntimeError")

-----------------------------------------------------------------------------
(* Properties of main *)

\* the calls that extract or build a record
ExtractionCalls ==
    {"ToonifiedError::new", "extract_file_location", "extract_issue",
     "extract_user_frames"}

Extracted == \E n \in 1..Len(calls) : calls[n] \in ExtractionCalls

\* the category t is the one the classification returns for text
IsCategoryOf(text, t) == t # None /\ t = detect_error_type(text)

\* C4: no extraction and no construction of a record is performed for an input
\* the classification gave no category; each comes after the classification
\* of the same input has returned a category.
C4_ExtractionOnlyAfterCategory ==
    /\ pc \in {"build", "display", "copy"} => error_type # None
    /\ Extracted \/ result # None =>
          /\ IsCategoryOf(input, error_type)
          /\ \A n \in 1..Len(calls) :
                calls[n] \in ExtractionCalls =>
                    \E m \in 1..(n - 1) : calls[m] = "detect_error_type"
    /\ error_type = None => ~Extracted /\ result = None

\* main has returned after a classification without a category
PassedThrough == pc = "done" /\ calls = <<"detect_error_type">> /\ error_type = None

\* an input without a category went through main, and nothing was extracted
C4_Witness == PassedThrough /\ ~Extracted /\ result = None

NotRecognizable == "Not a recognizable error. Passing through."

\* C5: when the classification returns no category, the output is the input
\* unchanged, no byte added, removed or altered; the notice goes to standard
\* error only; the exit code is 0.
C5_OutputIsInput ==
    PassedThrough =>
        /\ stdout = input
        /\ stderr[Len(stderr)] = NotRecognizable
        /\ exit_code = Some(0)

\* C5 but for the line feed println! ends the output with
C5_OutputIsInputLine ==
    PassedThrough =>
        /\ stdout = input \o "\n"
        /\ stderr[Len(stderr)] = NotRecognizable
        /\ exit_code = Some(0)

\* an input without a category, not ended by a line feed, was printed
C5_Witness == PassedThrough /\ input = "plain prose with no markers"

-----------------------------------------------------------------------------
(* Properties of the extraction *)

\* the number of the line of text that holds position i
LineIndex(text, i) == 1 + Cardinality({j \in 1..(i - 1) : CharAt(text, j) = "\n"})

\* the matches ms[n] of text that lie on a line without "node_modules"
UserMatches(text, ms) ==
    {n \in 1..Len(ms) :
        ~contains(lines(text)[LineIndex(text, ms[n].start)], "node_modules")}

\* ret is the text of the first match of user if there is one, else of the
\* first match of ms if there is one, else None
IsPreferredOf(text, ms, user, ret) ==
    /\ (ret = None) <=> (ms = <<>>)
    /\ user # {} => ret = Some(as_str(text, ms[MinOf(user)]))
    /\ ms # <<>> /\ user = {} => ret = Some(as_str(text, ms[1]))

IsPreferredLocation(text, ms, ret) ==
    IsPreferredOf(text, ms, UserMatches(text, ms), ret)

LocationExtracted == pc = "tested" /\ unit.fn = "extract_file_location"

\* C6: extract_file_location returns nothing exactly when the text has no match
\* of the file-location pattern; otherwise the text of the first match whose
\* line does not contain "node_modules", and the text of the very first match
\* when every match lies on such a line.
C6_PreferredLocation ==
    LocationExtracted =>
        /\ (unit.ret = None) <=> ~is_match(file_location, unit.arg)
        /\ IsPreferredLocation(unit.arg, find_iter(file_location, unit.arg), unit.ret)

\* the first match is on a line of a dependency and a later one is returned
LaterUserMatch(text, ms, user, ret) ==
    /\ user # {}
    /\ 1 \notin user
    /\ ret = Some(as_str(text, ms[MinOf(user)]))
    /\ ret # Some(as_str(text, ms[1]))

C6_Witness ==
    /\ LocationExtracted
    /\ LaterUserMatch(unit.arg, find_iter(file_location, unit.arg),
                      UserMatches(unit.arg, find_iter(file_location, unit.arg)),
                      unit.ret)

\* a line qualifies as a frame of the user
Qualifies(line) == is_match(user_frame, line) /\ ~is_match(framework_noise, line)

QualifyingIn(ls) == {n \in 1..Len(ls) : Qualifies(ls[n])}

\* the i-th member of the set Q of integers
Nth(Q, i) == CHOOSE n \in Q : Cardinality({m \in Q : m <= n}) = i

Trimmed(s) ==
    s = "" \/ (CharAt(s, 1) \notin WhiteSpace /\ CharAt(s, Len(s)) \notin WhiteSpace)

\* ret is the first min(3, k) of the k lines Q of ls, in their order, trimmed
AreFirstThree(ls, Q, ret) ==
    /\ Len(ret) = Min(3, Cardinality(Q))
    /\ \A i \in 1..Len(ret) :
          /\ ret[i] = trim(ls[Nth(Q, i)])
          /\ Trimmed(ret[i])
          /\ ~is_match(framework_noise, ret[i])

FirstThreeQualifying(ls, ret) == AreFirstThree(ls, QualifyingIn(ls), ret)

FramesExtracted == pc = "tested" /\ unit.fn = "extract_user_frames"

\* C7: extract_user_frames returns the first min(3, k) qualifying lines, k the
\* number of lines that match the user-frame pattern and not the noise
\* pattern, in the order of the text, each trimmed, none with a noise marker.
C7_FirstThreeUserFrames ==
    FramesExtracted => FirstThreeQualifying(lines(unit.arg), unit.ret)

\* more than three lines qualify, and a frame of a dependency stands before
\* the third frame returned
LimitAndNoise(ls, Q, ret) ==
    /\ Cardinality(Q) > 3
    /\ Len(ret) = 3
    /\ \E n \in 1..Nth(Q, 3) : is_match(framework_noise, ls[n])

C7_Witness ==
    /\ FramesExtracted
    /\ LimitAndNoise(lines(unit.arg), QualifyingIn(lines(unit.arg)), unit.ret)

-----------------------------------------------------------------------------
(* Properties of the Plain and TOON renderings *)

\* the positions of the line feeds of s, and the pieces of s between them
LineFeeds(s) == {j \in 1..Len(s) : CharAt(s, j) = "\n"}

PiecesAt(s, NL) ==
    [i \in 1..(Cardinality(NL) + 1) |->
        SubSeq(s,
               IF i = 1 THEN 1 ELSE Nth(NL, i - 1) + 1,
               IF i = Cardinality(NL) + 1 THEN Len(s) ELSE Nth(NL, i) - 1)]

Split(s) == PiecesAt(s, LineFeeds(s))

\* the lines of the Plain rendering of the record r above the statistics
ExpectedPlain(r) ==
    <<"type: " \o name(r.error_type)>>
    \o (IF r.file_location # None THEN <<"file: " \o r.file_location[1]>> ELSE <<>>)
    \o (IF r.issue # None THEN <<"issue: " \o r.issue[1]>> ELSE <<>>)
    \o (IF r.frames # <<>>
        THEN <<"frames:">> \o [i \in 1..Len(r.frames) |-> "  " \o r.frames[i]]
        ELSE <<>>)
    \o <<"", "---">>

\* out is the lines exp and then one line of statistics
IsPlainShape(out, exp) ==
    /\ Len(out) = Len(exp) + 1
    /\ SubSeq(out, 1, Len(exp)) = exp
    /\ starts_with(out[Len(out)], "compressed: ")

PlainRendered == pc = "tested" /\ unit.fn = "format_plain"

\* C8: the output of format_plain is, in this order, the line type:, a line
\* file: if and only if the record has a location, a line issue: if and only
\* if it has an issue, a line frames: and one line indented by two spaces for
\* each frame if and only if it has frames, then an empty line, a line ---,
\* and the line compressed: of the statistics as the last line.
C8_PlainLines ==
    PlainRendered => IsPlainShape(Split(unit.ret), ExpectedPlain(unit.arg))

\* a record with a location, an issue and two frames or more was rendered
C8_Witness ==
    /\ PlainRendered
    /\ unit.arg.file_location # None
    /\ unit.arg.issue # None
    /\ Len(unit.arg.frames) >= 2

\* the statistics of out, whose content ends before position cut, for the text
\* and the overhead: the sizes orig and comp in bytes and the percentage
StatsFor(out, cut, orig, comp) ==
    out = SubSeq(out, 1, cut - 1) \o "\n\n---\ncompressed: " \o ToString(orig)
          \o "c → " \o ToString(comp) \o "c ("
          \o ToString(IF orig > comp THEN ((orig - comp) * 100) \div orig ELSE 0)
          \o "% saved)"

HasPlainStats(out, cut, text) ==
    /\ cut # None
    /\ StatsFor(out, cut[1], len(text), len(SubSeq(out, 1, cut[1] - 1)) + 40)

\* C9: in the statistics line of format_plain the original size is the length
\* in bytes of the input, the compressed size is the length in bytes of what
\* is rendered above the empty line plus 40, and the percentage is
\* (orig - comp) * 100 / orig, truncated, when orig > comp, and 0 otherwise.
C9_PlainStatistics ==
    PlainRendered => HasPlainStats(unit.ret, str_find(unit.ret, "\n\n---\n"), input)

\* the percentage is positive and the division does not come out even
SavesInexact(orig, comp) == orig > comp /\ ((orig - comp) * 100) % orig # 0

C9_Witness ==
    /\ PlainRendered
    /\ SavesInexact(len(input),
                    len(SubSeq(unit.ret, 1, str_find(unit.ret, "\n\n---\n")[1] - 1)) + 40)

ToonRendered == pc = "tested" /\ unit.fn = "format_toon"

Commas(s) == {j \in 1..Len(s) : CharAt(s, j) = ","}

\* line is the line issue: of an issue: each comma of it follows a backslash,
\* and it has the commas of the issue
IsEscapedIssue(line, issue) ==
    /\ starts_with(line, "issue: ")
    /\ \A j \in Commas(line) : j > 1 /\ CharAt(line, j - 1) = "\\"
    /\ Cardinality(Commas(line)) = Cardinality(Commas(issue))

\* the line issue: of the rendering out of the record r
IssueLine(out, r) == Split(out)[IF r.file_location # None THEN 3 ELSE 2]

\* C10: in the output of format_toon every comma of the issue of the record
\* is emitted just after a backslash: none reaches the line issue: unescaped.
C10_CommasEscaped ==
    ToonRendered /\ unit.arg.issue # None =>
        IsEscapedIssue(IssueLine(unit.ret, unit.arg), unit.arg.issue[1])

\* an issue with a comma was rendered
C10_Witness ==
    /\ ToonRendered
    /\ unit.arg.issue # None
    /\ Commas(unit.arg.issue[1]) # {}

\* the tests have called detect_error_type on the text of each category
EachDetected == pc = "tested" /\ unit.fn = "detect_error_type of each"

\* C16: every one of the 29 categories is reachable: for each category there is
\* a text on which detect_error_type returns that category, so that no entry of
\* ErrorType::ALL is completely shadowed by the entries before it.
C16_EveryCategoryReachable ==
    EachDetected =>
        /\ Cardinality(ErrorType) = 29
        /\ \A t \in ErrorType : unit.ret[t] = Some(t)

\* the texts were classified, the last category among them by a text that also
\* has a first line
C16_Witness ==
    /\ EachDetected
    /\ unit.ret["RuntimeError"] = Some("RuntimeError")
    /\ unit.ret["DomNesting"] = Some("DomNesting")

\* s is a number in decimal digits
IsNumber(s) == s # "" /\ \A j \in 1..Len(s) : CharAt(s, j) \in Digit

\* line is stats{orig,comp,pct}: o,c,p for three numbers o, c and p
IsToonStats(line) ==
    /\ starts_with(line, "stats{orig,comp,pct}: ")
    /\ LET fields == SubSeq(line, Len("stats{orig,comp,pct}: ") + 1, Len(line))
       IN  /\ Cardinality(Commas(fields)) = 2
           /\ IsNumber(SubSeq(fields, 1, MinOf(Commas(fields)) - 1))
           /\ IsNumber(SubSeq(fields, MinOf(Commas(fields)) + 1,
                              MaxOf(Commas(fields)) - 1))
           /\ IsNumber(SubSeq(fields, MaxOf(Commas(fields)) + 1, Len(fields)))

\* the lines of ls that open a block of frames
FrameHeaders(ls) == {n \in 1..Len(ls) : starts_with(ls[n], "frames[")}

\* the lines ls hold a block of frames if and only if frames is not empty; its
\* header declares the number of frames, which is the number of the rows that
\* follow it up to the last line, and is 1, 2 or 3
HasFramesBlock(ls, frames, headers) ==
    /\ (headers # {}) <=> (frames # <<>>)
    /\ headers # {} =>
          /\ Cardinality(headers) = 1
          /\ ls[MinOf(headers)] = "frames[" \o ToString(Len(frames)) \o "]{fn,loc}:"
          /\ Len(ls) - 1 - MinOf(headers) = Len(frames)
          /\ Len(frames) \in 1..3
          /\ \A n \in (MinOf(headers) + 1)..(Len(ls) - 1) :
                starts_with(ls[n], "  ") /\ Commas(ls[n]) # {}

IsToonShape(ls, r) ==
    /\ HasFramesBlock(ls, r.frames, FrameHeaders(ls))
    /\ \A n \in 1..Len(ls) : ls[n] # "---"
    /\ IsToonStats(ls[Len(ls)])

\* C11: in the output of format_toon the block of frames is present if and only
\* if the record has a frame; its header is frames[N]{fn,loc}: where N is the
\* number of the rows that follow and the number of frames of the record, 1 to
\* 3; there is no line --- and the last line is stats{orig,comp,pct}: o,c,p.
C11_ToonFramesBlock == ToonRendered => IsToonShape(Split(unit.ret), unit.arg)

\* a record of several frames was rendered
C11_Witness ==
    /\ ToonRendered
    /\ Len(unit.arg.frames) >= 2
    /\ FrameHeaders(Split(unit.ret)) # {}

-----------------------------------------------------------------------------
(* Properties of truncate *)

\* a test has called truncate(unit.arg[1], unit.arg[2])
Truncated == pc = "tested" /\ unit.fn = "truncate"

\* the number of characters of s
chars_count(s) == Len(s)

\* C12: truncate(s, max) returns s unchanged when s fits within max; otherwise
\* the result is the first max - 3 characters of s, counted in characters and
\* not in bytes, followed by "...", so that for max >= 3 a truncated result is
\* exactly max characters long.
IsCutToChars(s, max_len, ret) ==
    /\ ret # None
    /\ chars_count(s) <= max_len => Unwrap(ret) = s
    /\ chars_count(s) > max_len =>
          /\ Unwrap(ret) = SubSeq(s, 1, saturating_sub(max_len, 3)) \o "..."
          /\ max_len >= 3 => chars_count(Unwrap(ret)) = max_len

C12_CutToCharacters == Truncated => IsCutToChars(unit.arg[1], unit.arg[2], unit.ret)

\* a string of four characters of three bytes was truncated to ten
C12_Witness == Truncated /\ unit.arg = <<"→→→→", 10>>

\* C13: truncation never splits a character of several bytes: for every string,
\* also of characters of three and four bytes only, and every max, truncate does
\* not fail, and the part of its result before the ellipsis is a prefix of s
\* that ends on a character boundary of s.
IsPrefixOnBoundary(s, ret) ==
    /\ ret # None
    /\ \/ Unwrap(ret) = s
       \/ \E n \in 0..Len(s) :
             /\ Unwrap(ret) = SubSeq(s, 1, n) \o "..."
             /\ is_char_boundary(s, len(SubSeq(s, 1, n)))

C13_NeverSplitsCharacter == Truncated => IsPrefixOnBoundary(unit.arg[1], unit.ret)

\* truncate_at fell inside a character of four bytes after one of three
C13_Witness ==
    /\ Truncated
    /\ unit.arg = <<"→▣→", 8>>
    /\ unit.ret = Some("→...")

\* C14 as stated: for a maximum of 0, 1 or 2 every non-empty string yields
\* exactly "...", and the empty string yields the empty string for every max.
IsEllipsisOnly(s, max_len, ret) ==
    /\ (max_len \in 0..2 /\ s # "") => ret = Some("...")
    /\ s = "" => ret = Some("")

C14_SmallLimitEllipsis == Truncated => IsEllipsisOnly(unit.arg[1], unit.arg[2], unit.ret)

\* C14, amended: for a maximum of 0, 1 or 2 every string of more than max bytes
\* yields exactly "..." and a string of at most max bytes is returned unchanged;
\* the empty string yields the empty string for every max.
IsEllipsisIfLonger(s, max_len, ret) ==
    /\ (max_len \in 0..2 /\ len(s) > max_len) => ret = Some("...")
    /\ (max_len \in 0..2 /\ len(s) <= max_len) => ret = Some(s)
    /\ s = "" => ret = Some("")

C14_SmallLimitEllipsisIfLonger ==
    Truncated => IsEllipsisIfLonger(unit.arg[1], unit.arg[2], unit.ret)

\* a string of several characters was truncated to a maximum below 3
C14_Witness ==
    /\ Truncated
    /\ unit.arg = <<"a→▣", 2>>
    /\ unit.ret = Some("...")

-----------------------------------------------------------------------------
(* Properties of the frames of the TOON format *)

\* a test has called simplify_location on the location of the parts unit.arg
Simplified == pc = "tested" /\ unit.fn = "simplify_location"

\* C19: simplify_location maps every location that names a file with a line
\* number, whatever scheme, host, directory path or query component accompanies
\* it and with or without a column number, to exactly filename.ext:line; a
\* location without a line number is returned unchanged apart from trimming.
IsFileAndLine(p, ret) ==
    IF p.line # None THEN ret = p.file \o ":" \o Unwrap(p.line)
    ELSE ret = trim(LocOf(p))

C19_FileAndLine == Simplified => IsFileAndLine(unit.arg, unit.ret)

\* C19 for the locations without a query component
C19_FileAndLineWithoutQuery ==
    Simplified /\ unit.arg.query = "" => IsFileAndLine(unit.arg, unit.ret)

\* a location with a query component, a line and a column was simplified
C19_Witness ==
    /\ Simplified
    /\ input = "http://h:3/s/App.tsx?v=1:42:10"

\* a test has called parse_frame on the frame of unit.arg
Parsed == pc = "tested" /\ unit.fn = "parse_frame"

\* the shapes of c in the order at NAME (LOC), @ NAME (LOC), NAME @ LOC
ShapesHeld(c) == {k \in 1..3 : c.shapes[k] # None}

\* ret is <<NAME, simplify_location(LOC)>> of the first shape held, or the
\* trimmed frame and an empty location when none is held
IsFirstShape(c, held, ret) ==
    IF held = {} THEN ret = <<trim(c.frame), "">>
    ELSE ret = <<Unwrap(c.shapes[MinOf(held)])[1],
                 simplify_location(Unwrap(c.shapes[MinOf(held)])[2])>>

\* C20: parse_frame tries the shapes at NAME (LOC), @ NAME (LOC) and NAME @ LOC
\* or NAME@LOC in that order and uses the first that matches, returning
\* <<NAME, simplify_location(LOC)>>; when none matches it returns the trimmed
\* frame as the function and an empty location.
C20_FirstShapeWins == Parsed => IsFirstShape(unit.arg, ShapesHeld(unit.arg), unit.ret)

\* a frame that holds the second and the third shape was parsed
C20_Witness ==
    /\ Parsed
    /\ ShapesHeld(unit.arg) = {2, 3}
    /\ unit.ret = <<"N", "P.tsx:4">>

-----------------------------------------------------------------------------
(* Properties of the registry of the patterns *)

\* Patterns::compile has run at most once; it has not run before the first use;
\* a complete cell holds the patterns; what a thread has read is the patterns
RegistryInitializedOnce ==
    /\ PATTERNS.compiled <= 1
    /\ PATTERNS.state = "incomplete" => PATTERNS.compiled = 0
    /\ PATTERNS.state = "complete" => PATTERNS.compiled = 1 /\ PATTERNS.value = Compiled
    /\ \A t \in Threads : \A n \in 1..Len(threads[t].seen) :
          threads[t].seen[n] = Compiled

\* no step changes a complete cell
RegistryKept == PATTERNS.state = "complete" => PATTERNS' = PATTERNS

Ended == exit_code # None

\* C18: a pattern that fails to compile is fatal at startup: every run of a
\* program with a malformed pattern ends in the abort, whatever the input is,
\* and no input is classified, extracted from, rendered or emitted before.
C18_MalformedPatternAborts ==
    (~patterns_ok /\ Ended) =>
        /\ pc = "panicked"
        /\ error_type = None
        /\ result = None
        /\ stdout = ""

\* a program with a malformed pattern has ended on an input without text
C18_Witness ==
    /\ ~patterns_ok
    /\ Ended
    /\ trim(input) = ""


-----------------------------------------------------------------------------
(* Properties of the rows of the frames *)

\* the rows of the block of frames of the lines ls: the lines between the
\* header frames[ and the last line
FrameRows(ls) ==
    IF FrameHeaders(ls) = {} THEN {}
    ELSE {ls[n] : n \in (MinOf(FrameHeaders(ls)) + 1)..(Len(ls) - 1)}

\* the commas of s that do not follow a backslash
UnescapedCommas(s) == {j \in Commas(s) : j = 1 \/ CharAt(s, j - 1) # "\\"}

\* C21: in the output of format_toon every row of the block of frames has the
\* two fields fn and loc: the comma that joins them is the only unescaped comma
\* of the row, neither field holds one.
C21_FrameRowsTwoFields ==
    ToonRendered =>
        \A row \in FrameRows(Split(unit.ret)) : Cardinality(UnescapedCommas(row)) = 1

\* a record with a frame whose text holds a comma was rendered
C21_Witness ==
    /\ ToonRendered
    /\ \E i \in 1..Len(unit.arg.frames) : Commas(unit.arg.frames[i]) # {}


-----------------------------------------------------------------------------
(* Properties of extract_issue *)

\* a test has called extract_issue(unit.arg.text, unit.arg.t)
IssueExtracted == pc = "tested" /\ unit.fn = "extract_issue"

\* the lines of ls that start with a prefix of ps, and the ones that start
\* with one after their leading white space
Starting(ls, ps) ==
    {n \in 1..Len(ls) : \E k \in 1..Len(ps) : starts_with(ls[n], ps[k])}

StartingTrimmed(ls, ps) ==
    {n \in 1..Len(ls) : \E k \in 1..Len(ps) : starts_with(trim_start(ls[n]), ps[k])}

\* the prefixes of ps that line holds, and the lines of ls that hold one
HeldIn(line, ps) == {k \in 1..Len(ps) : contains(line, ps[k])}

Holding(ls, ps) == {n \in 1..Len(ls) : HeldIn(ls[n], ps) # {}}

\* the positions of word in line
Occurrences(line, word) ==
    {j \in 1..(Len(line) - Len(word) + 1) : SubSeq(line, j, j + Len(word) - 1) = word}

\* line from the first occurrence of the first prefix of ps it holds
FromFirstHeld(line, ps) ==
    SubSeq(line, MinOf(Occurrences(line, ps[MinOf(HeldIn(line, ps))])), Len(line))

\* line from an occurrence of a prefix of ps
FromSomePrefix(line, ps) ==
    {SubSeq(line, j, Len(line)) : j \in UNION {Occurrences(line, ps[k]) : k \in 1..Len(ps)}}

\* ret is the issue the line-starts-with strategy is said to give for the
\* lines ls: the first line that starts with a prefix once trimmed, as it is
\* or trimmed
IsLineStartingTrimmed(ls, ps, ret) ==
    IF StartingTrimmed(ls, ps) # {}
    THEN ret \in {Some(ls[MinOf(StartingTrimmed(ls, ps))]),
                  Some(trim_start(ls[MinOf(StartingTrimmed(ls, ps))])),
                  Some(trim(ls[MinOf(StartingTrimmed(ls, ps))]))}
    ELSE IF Holding(ls, ps) # {}
    THEN ret # None /\ ret[1] \in FromSomePrefix(ls[MinOf(Holding(ls, ps))], ps)
    ELSE ret = None

\* ret is the first line that starts with a prefix, untrimmed; else the first
\* line that holds a prefix, from the first prefix it holds; else nothing
IsLineStarting(ls, ps, ret) ==
    IF Starting(ls, ps) # {}
    THEN ret = Some(ls[MinOf(Starting(ls, ps))])
    ELSE IF Holding(ls, ps) # {}
    THEN ret = Some(FromFirstHeld(ls[MinOf(Holding(ls, ps))], ps))
    ELSE ret = None

\* C22 as stated: for the categories of the line-starts-with strategy the issue
\* is the first line whose start, after trimming leading white space, matches
\* a prefix; else the first line that holds a prefix, from the prefix on; else
\* it is absent.
C22_FirstLineStartingTrimmed ==
    IssueExtracted /\ unit.arg.t \in PrefixTypes =>
        IsLineStartingTrimmed(Split(unit.arg.text), prefixes_of(unit.arg.t), unit.ret)

\* C22: for the categories of the line-starts-with strategy the issue is the
\* first line that starts with a prefix, with no trimming; else the first line
\* that holds a prefix, from the first occurrence of the first prefix, in the
\* order of the prefixes, that it holds; else it is absent.
C22_FirstLineStarting ==
    IssueExtracted /\ unit.arg.t \in PrefixTypes =>
        IsLineStarting(Split(unit.arg.text), prefixes_of(unit.arg.t), unit.ret)

\* a line that starts with a prefix after white space lies above a line that
\* starts with one
C22_Witness ==
    /\ IssueExtracted
    /\ unit.arg.t \in PrefixTypes
    /\ Starting(Split(unit.arg.text), prefixes_of(unit.arg.t)) # {}
    /\ MinOf(StartingTrimmed(Split(unit.arg.text), prefixes_of(unit.arg.t)))
          < MinOf(Starting(Split(unit.arg.text), prefixes_of(unit.arg.t)))
    /\ unit.ret # None

\* the positions of text where a standalone number of three digits from 400
\* to 599 starts
StandaloneStatus(text) ==
    {j \in 1..(Len(text) - 2) :
        /\ CharAt(text, j) \in {"4", "5"}
        /\ CharAt(text, j + 1) \in Digit
        /\ CharAt(text, j + 2) \in Digit
        /\ ~IsWordAt(text, j - 1)
        /\ ~IsWordAt(text, j + 3)}

\* ret is the first line of ls, trimmed, that holds the status
IsFirstLineWith(ls, status, ret) ==
    /\ Holding(ls, <<status>>) # {}
    /\ ret = Some(trim(ls[MinOf(Holding(ls, <<status>>))]))

IsVerbatimOrCut(code, ret) ==
    IF len(code) <= 100 THEN ret = code
    ELSE /\ len(ret) <= 100
         /\ Len(ret) >= 3
         /\ SubSeq(ret, Len(ret) - 2, Len(ret)) = "..."
         /\ SubSeq(code, 1, Len(ret) - 3) = SubSeq(ret, 1, Len(ret) - 3)

\* C24: for Storybook and NextJs, when the code pattern of the category
\* matches, the issue is the first match as it is when it has at most 100
\* bytes, else it is cut and ended by the marker: it never has more than 100.
C24_CodeAtMost100 ==
    IssueExtracted /\ unit.arg.t \in {"Storybook", "NextJs"} /\ unit.arg.code # None =>
        /\ unit.ret # None
        /\ IsVerbatimOrCut(unit.arg.code[1], unit.ret[1])
        /\ len(unit.ret[1]) <= 100

\* a code of more than 100 bytes was cut
C24_Witness ==
    /\ IssueExtracted
    /\ unit.arg.t \in {"Storybook", "NextJs"}
    /\ unit.arg.code # None
    /\ len(unit.arg.code[1]) > 100
    /\ unit.ret # None
    /\ unit.ret[1] # unit.arg.code[1]


-----------------------------------------------------------------------------
(* Properties of the boxed rendering *)

ColoredRendered == pc = "tested" /\ unit.fn = "format_colored"

\* C25: in the boxed rendering every line, borders and rows of content alike,
\* has the width of the box: the text of a row is padded to the interior width
\* or cut to it, so that no row is wider than the box.
C25_RowsHaveBoxWidth ==
    ColoredRendered =>
        \A n \in 1..Len(Split(unit.ret)) : chars_count(Split(unit.ret)[n]) = BOX_WIDTH

\* a record whose location does not fit the interior of the box was rendered
C25_Witness ==
    /\ ColoredRendered
    /\ unit.arg.file_location # None
    /\ chars_count(unit.arg.file_location[1]) >= CONTENT_WIDTH


-----------------------------------------------------------------------------
(* Properties of the run: empty input and the clipboard *)

\* main is past read_input
PastRead == pc \notin {"start", "read"}

Last(q) == q[Len(q)]

\* C26: when the input is empty or white space only, the run ends with exit
\* code 1 after an error message on standard error, nothing was written to
\* standard output, nothing was classified and no write to the clipboard was
\* attempted.
C26_EmptyInputEndsInError ==
    PastRead /\ trim(input) = "" =>
        /\ pc = "exited"
        /\ exit_code = Some(1)
        /\ stderr # <<>>
        /\ starts_with(Last(stderr), "Error: ")
        /\ input # "" =>
              Last(stderr) = "Error: No input. Copy an error to clipboard or pipe it in."
        /\ stdout = ""
        /\ calls = <<>>
        /\ error_type = None
        /\ result = None
        /\ clipboard = <<>>

\* a run on a text of white space has ended
C26_Witness ==
    /\ pc = "exited"
    /\ input # ""
    /\ trim(input) = ""
    /\ exit_code = Some(1)

\* what main has printed for the record r
Displayed(r) ==
    IF args.toon THEN format_toon(r)
    ELSE IF args.plain \/ ~tty THEN format_plain(r)
    ELSE format_colored(r)

\* the writes attempted so far: at most one, with --no-copy absent, standard
\* output a terminal and the input recognized, after the output was printed,
\* of the Plain or TOON rendering, and the run ended with exit code 0
OneWriteOfCopyable ==
    /\ Len(clipboard) <= 1
    /\ clipboard # <<>> =>
          /\ ~args.no_copy
          /\ tty
          /\ error_type # None
          /\ result # None
          /\ stdout = Displayed(result[1]) \o "\n"
          /\ clipboard[1].text = (IF args.toon THEN format_toon(result[1])
                                  ELSE format_plain(result[1]))
          /\ clipboard[1].text # format_colored(result[1])
          /\ exit_code = Some(0)
          /\ pc = "done"

\* a step that attempts a write leaves what was printed, and ends the run with
\* exit code 0 whether the write failed or not; no step follows a write
WriteIsLast ==
    /\ clipboard' # clipboard =>
          /\ clipboard = <<>>
          /\ Len(clipboard') = 1
          /\ stdout # ""
          /\ stdout' = stdout
          /\ exit_code' = Some(0)
    /\ clipboard = <<>>

\* C27: at most one write to the clipboard is attempted in a run, only after
\* the output was printed, only when --no-copy is absent, standard output is a
\* terminal and the input was recognized; the text written is the Plain or
\* TOON rendering, never the boxed one; a failed write is not retried and
\* changes neither what was printed nor the exit code 0.
C27_SingleBestEffortWrite == [](OneWriteOfCopyable) /\ [][WriteIsLast]_vars

\* a write failed, after the boxed rendering was printed
C27_Witness ==
    /\ pc = "done"
    /\ clipboard # <<>>
    /\ ~clipboard[1].ok
    /\ ~args.toon
    /\ ~args.plain
    /\ stdout # clipboard[1].text \o "\n"


-----------------------------------------------------------------------------
(* Properties of the fields of a record and of the sizes *)

\* no field of the record r holds a line feed
SingleLineFields(r) ==
    /\ r.file_location # None => LineFeeds(r.file_location[1]) = {}
    /\ r.issue # None => LineFeeds(r.issue[1]) = {}
    /\ \A i \in 1..Len(r.frames) : LineFeeds(r.frames[i]) = {}

\* 4 + [location present] + [issue present] + (n > 0 ? n + 1 : 0)
PlainLineCount(r) ==
    4 + (IF r.file_location # None THEN 1 ELSE 0) + (IF r.issue # None THEN 1 ELSE 0)
      + (IF Len(r.frames) > 0 THEN Len(r.frames) + 1 ELSE 0)

\* C28: no field of a record built by ToonifiedError::new holds a line feed,
\* for every text and every category, and the output of format_plain has
\* 4 + [location present] + [issue present] + (n > 0 ? n + 1 : 0) lines for a
\* record of n frames.
C28_SingleLineFields ==
    /\ Built => SingleLineFields(unit.ret)
    /\ PlainRendered =>
          /\ SingleLineFields(unit.arg)
          /\ Cardinality(LineFeeds(unit.ret)) + 1 = PlainLineCount(unit.arg)

\* a record with every field, built from a text of four lines or more, was
\* rendered
C28_Witness ==
    /\ PlainRendered
    /\ Cardinality(LineFeeds(input)) >= 3
    /\ unit.arg.file_location # None
    /\ unit.arg.issue # None
    /\ Len(unit.arg.frames) >= 2


\* the decimal numbers 0 to 99
Percentages == {ToString(p) : p \in 0..99}

\* the text of out between the last "(" before the last "% saved)" and it
SavedIn(out) ==
    LET at == MaxOf(Occurrences(out, "% saved)"))
    IN  SubSeq(out, MaxOf({j \in 1..at : CharAt(out, j) = "("}) + 1, at - 1)

\* the last field of the line stats of the TOON rendering out
PctField(out) == SubSeq(out, MaxOf(Commas(out)) + 1, Len(out))

\* C29: the percentage that format_plain, format_toon and format_colored
\* report is an integer from 0 to 99 for every record, one of original length
\* 0 included: its computation neither divides by zero nor subtracts below
\* zero, and 100 is never reported.
C29_PercentageInRange ==
    /\ PlainRendered \/ ColoredRendered => SavedIn(unit.ret) \in Percentages
    /\ ToonRendered => PctField(unit.ret) \in Percentages

\* a record of original length 0 was rendered in the box
C29_Witness ==
    /\ ColoredRendered
    /\ unit.arg.original_len = 0
    /\ SavedIn(unit.ret) = "0"

\* format_plain reports a positive percentage in out
SavesSome(out) == SavedIn(out) \in Percentages \ {"0"}

\* C30 as stated: whenever format_plain reports a positive percentage, its
\* whole output is strictly shorter in bytes than the input.
C30_OutputShorter ==
    PlainRendered /\ SavesSome(unit.ret) => len(unit.ret) < len(input)

\* C30: whenever format_plain reports a positive percentage, its whole output
\* is not longer in bytes than the input.
C30_OutputNotLonger ==
    PlainRendered /\ SavesSome(unit.ret) => len(unit.ret) <= len(input)

\* a positive percentage was reported for an output as long as the input
C30_Witness ==
    /\ PlainRendered
    /\ SavesSome(unit.ret)
    /\ len(unit.ret) = len(input)

=============================================================================
